---- MODULE Spec2Model ----
(***************************************************************************)
(* Model of the family meal tracker's analytics engine:                    *)
(*   NutritionCalculator (energy model, nutrient aggregation, reports)     *)
(*   and the DataStore queries it reads.                                   *)
(*                                                                         *)
(* Numbers.  JavaScript numbers are modelled by exact decimal arithmetic   *)
(* over integers: a quantity is carried as an integer count of a fixed     *)
(* unit (thousandths, ten-thousandths, ...) named in the definition that   *)
(* uses it.  Math.round(x) is floor(x + 1/2).                              *)
(*                                                                         *)
(* Optional values.  A JavaScript value that may be undefined is a set of  *)
(* at most one element: {} is undefined, {v} is the value v.  The same     *)
(* encoding is used for an argument that may be null.                      *)
(*                                                                         *)
(* Strings that the code converts (toLowerCase, toString, parseFloat) are  *)
(* sequences of character codes; strings that are only compared are TLA+   *)
(* strings.                                                                *)
(***************************************************************************)
EXTENDS Integers, Sequences, FiniteSets, TLC

VARIABLES
    input,         \* the arguments the next NutritionCalculator call is made with
    call,          \* the last call: operation, result and the errors handed to ErrorHandler
    localStorage,  \* DataStore's persisted collections
    today,         \* the instant "new Date()" returns, in hours (UTC) since 2023-01-01T00:00Z
    timezone,      \* the browser's local time minus UTC, in hours
    budgetTracker, \* BudgetTracker's currentMonth, expenses and monthlyBudget
    mealTracker,   \* MealTracker's currentDate, currentFamilyMemberId, meals, mealPlans, viewMode
    familyMemberSelect, \* the options and the value of the 'family-member' dropdown
    errorBanner,   \* the 'error-banner' element and the pending auto-hide timers
    dateNow        \* Date.now(): milliseconds since the session began

vars ==
    <<input, call, localStorage, today, timezone, budgetTracker,
      mealTracker, familyMemberSelect, errorBanner, dateNow>>

\* the state of the page outside the calculators and the budget tracker
pageVars == <<mealTracker, familyMemberSelect, errorBanner, dateNow>>

----------------------------------------------------------------------------
(* Optional values *)

Nothing == {}
Some(v) == {v}
Has(x) == x # {}
Val(x) == CHOOSE v \in x : TRUE

----------------------------------------------------------------------------
(* Bounds of the model *)

WeightSamples == 2
HeightSamples == 2
AgeSamples == 1
MaxItems == 3
MaxSlotItems == 1
TotalsSamples == 2
AnchorSamples == 2

----------------------------------------------------------------------------
(* Character strings *)

\* "male", "MALE", "Male", "female" as character codes
StrMale == <<109, 97, 108, 101>>
StrMALE == <<77, 65, 76, 69>>
StrMaleCap == <<77, 97, 108, 101>>
StrFemale == <<102, 101, 109, 97, 108, 101>>

\* a comparison that forgets to fold the case
toLowerCase_Identity(s) == s

\* String.prototype.toLowerCase on ASCII text
toLowerCase(s) == [i \in DOMAIN s |-> IF s[i] \in 65..90 THEN s[i] + 32 ELSE s[i]]

----------------------------------------------------------------------------
(* Exact decimal arithmetic *)

\* Math.round of a quantity given in thousandths: floor(x + 0.5)
MathRoundMilli(x) == (x + 500) \div 1000

\* c (thousandths) times x (millionths): the product in units of 10^-9 is
\* m * 10^6 + r with 0 <= r < 10^6; m is the product's whole thousandths.
MulMilliMicro(c, x) ==
    LET a  == x \div 1000000
        b  == x % 1000000
        b1 == b \div 1000
        b0 == b % 1000
        p1 == c * b1
        p0 == c * b0
        rr == (p1 % 1000) * 1000 + (p0 % 1000000)
    IN  [m |-> c * a + (p1 \div 1000) + (p0 \div 1000000) + (rr \div 1000000),
         r |-> rr % 1000000]

----------------------------------------------------------------------------
(* EnergyModel: calculateBMR, calculateTDEE, calculateDailyCalorieNeeds *)

\* activity factors, in thousandths
ACTIVITY_MULTIPLIERS ==
    [SEDENTARY |-> 1200, LIGHT |-> 1375, MODERATE |-> 1550,
     ACTIVE |-> 1725, VERY_ACTIVE |-> 1900]

\* pounds to kilograms, in millionths; inches to centimetres, in millionths
LbToKgMicro == 453592
InToCmMicro == 2540000

\* !x for an optional number and for an optional string
FalsyNum(x) == x = Nothing \/ x = Some(0)
FalsyStr(x) == x = Nothing \/ x = Some(<<>>)

\* the guard of calculateBMR: true when the function throws "Missing required person data"
MissingPersonData(person) ==
    \/ person = Nothing
    \/ FalsyStr(Val(person).gender)
    \/ FalsyNum(Val(person).weight)
    \/ FalsyNum(Val(person).height)
    \/ FalsyNum(Val(person).age)

\* weight in kg and height in cm after unit conversion, in millionths
WeightMicro(p) ==
    IF p.weightUnit = Some("lb") THEN Val(p.weight) * LbToKgMicro
                                   ELSE Val(p.weight) * 1000000
HeightMicro(p) ==
    IF p.heightUnit = Some("in") THEN Val(p.height) * InToCmMicro
                                   ELSE Val(p.height) * 1000000

\* the Harris-Benedict sum with the given coefficients (thousandths), as whole
\* thousandths m and a remainder r in units of 10^-9 (0 <= r < 10^6)
HarrisBenedict(c0, cw, ch, ca, p) ==
    LET tw == MulMilliMicro(cw, WeightMicro(p))
        th == MulMilliMicro(ch, HeightMicro(p))
        rr == tw.r + th.r
    IN  [m |-> c0 + tw.m + th.m - ca * Val(p.age) + (rr \div 1000000),
         r |-> rr % 1000000]

\* the formula without the gender branch
BmrValue_NoGenderBranch(p) == HarrisBenedict(447593, 9247, 3098, 4330, p)

\* the value of the local variable bmr before rounding
BmrValue(p) ==
    IF toLowerCase(Val(p.gender)) = StrMale
    THEN HarrisBenedict(88362, 13397, 4799, 5677, p)
    ELSE HarrisBenedict(447593, 9247, 3098, 4330, p)

\* calculateBMR(person): the returned number and the errors handed to ErrorHandler.
\* Math.round(bmr) depends on the whole thousandths only: the remainder is less
\* than one thousandth and cannot carry the sum over a half.
calculateBMR(person) ==
    IF MissingPersonData(person)
    THEN [value |-> 0, handled |-> <<"Error calculating BMR">>]
    ELSE [value |-> MathRoundMilli(BmrValue(Val(person)).m), handled |-> <<>>]

\* a lookup whose fallback is the first table entry
Multiplier_DefaultSedentary(activityLevel) ==
    IF Has(activityLevel) /\ Val(activityLevel) \in DOMAIN ACTIVITY_MULTIPLIERS
    THEN ACTIVITY_MULTIPLIERS[Val(activityLevel)]
    ELSE ACTIVITY_MULTIPLIERS.SEDENTARY

\* ACTIVITY_MULTIPLIERS[activityLevel] || ACTIVITY_MULTIPLIERS.MODERATE
Multiplier(activityLevel) ==
    IF Has(activityLevel) /\ Val(activityLevel) \in DOMAIN ACTIVITY_MULTIPLIERS
    THEN ACTIVITY_MULTIPLIERS[Val(activityLevel)]
    ELSE ACTIVITY_MULTIPLIERS.MODERATE

\* calculateTDEE(bmr, activityLevel)
calculateTDEE(bmr, activityLevel) ==
    [value |-> MathRoundMilli(bmr * Multiplier(activityLevel)), handled |-> <<>>]

\* calculateDailyCalorieNeeds(person): reading person.activityLevel of a null
\* person throws and the catch block returns 2000
calculateDailyCalorieNeeds(person) ==
    LET b == calculateBMR(person)
    IN  IF person = Nothing
        THEN [value |-> 2000, bmr |-> b.value,
              handled |-> b.handled \o <<"Error calculating daily calorie needs">>]
        ELSE LET t == calculateTDEE(b.value, Val(person).activityLevel)
             IN  [value |-> t.value, bmr |-> b.value, handled |-> b.handled \o t.handled]

----------------------------------------------------------------------------
(* NutrientAggregator: data *)

MacroFields == {"calories", "protein", "carbs", "fat"}
MicroFields == {"fiber", "sodium", "calcium", "iron", "vitaminA", "vitaminC"}
AllFields == MacroFields \cup MicroFields \cup {"cost"}

\* the keys of the object the catch blocks return
CatchFields == {"calories", "protein", "carbs", "fat", "fiber", "cost"}

\* an id or a servings value is a number or a string of character codes
Num(n) == [t |-> "number", n |-> n, s |-> <<>>]
Str(s) == [t |-> "string", n |-> 0, s |-> s]

\* decimal digits of a non-negative integer
RECURSIVE Digits(_)
Digits(n) == IF n < 10 THEN <<48 + n>> ELSE Digits(n \div 10) \o <<48 + (n % 10)>>

\* id.toString() for a numeric or string id
IdToString(id) == IF id.t = "number" THEN Digits(id.n) ELSE id.s

IsDigit(c) == c \in 48..57

\* the number of digits of s from position i on
RECURSIVE DigitRun(_, _)
DigitRun(s, i) == IF i <= Len(s) /\ IsDigit(s[i]) THEN 1 + DigitRun(s, i + 1) ELSE 0

\* the value of the k digits of s that start at position i
RECURSIVE DigitsValue(_, _, _)
DigitsValue(s, i, k) ==
    IF k = 0 THEN 0 ELSE DigitsValue(s, i, k - 1) * 10 + (s[i + k - 1] - 48)

\* parseFloat of a string, in hundredths; Nothing is NaN.  An optional sign, a
\* run of digits and an optional fraction are read; text after them is ignored.
\* Exact for texts with at most two fraction digits.
ParseFloatString(s) ==
    LET neg  == Len(s) >= 1 /\ s[1] = 45
        st   == IF Len(s) >= 1 /\ s[1] \in {43, 45} THEN 2 ELSE 1
        ni   == DigitRun(s, st)
        dot  == st + ni <= Len(s) /\ s[st + ni] = 46
        nf   == IF dot THEN DigitRun(s, st + ni + 1) ELSE 0
        ip   == DigitsValue(s, st, ni)
        fp   == IF nf = 0 THEN 0
                ELSE IF nf = 1 THEN 10 * DigitsValue(s, st + ni + 1, 1)
                ELSE DigitsValue(s, st + ni + 1, 2)
        mag  == 100 * ip + fp
    IN  IF ni + nf = 0 THEN Nothing ELSE Some(IF neg THEN 0 - mag ELSE mag)

\* parseFloat(x) for a stored value that may be undefined, a number or a string
parseFloat(x) ==
    IF x = Nothing THEN Nothing
    ELSE IF Val(x).t = "number" THEN Some(Val(x).n)
    ELSE ParseFloatString(Val(x).s)

\* a catalog food; nutrient values and cost in hundredths
Food(id, cal, pro, carb, fat, micro, cost) ==
    [id |-> id, calories |-> cal, protein |-> pro, carbs |-> carb, fat |-> fat,
     fiber |-> micro[1], sodium |-> micro[2], calcium |-> micro[3], iron |-> micro[4],
     vitaminA |-> micro[5], vitaminC |-> micro[6], costPerServing |-> cost]

NoMicros == <<Nothing, Nothing, Nothing, Nothing, Nothing, Nothing>>

\* initialData.foodDatabase
Oatmeal == Food(Some(Num(1)), 15000, 500, 2700, 300, NoMicros, Some(35))
ChickenBreast == Food(Some(Num(2)), 16500, 3100, 0, 350, NoMicros, Some(120))
Broccoli == Food(Some(Num(3)), 5500, 370, 1100, 60, NoMicros, Some(60))
initialFoodDatabase == <<Oatmeal, ChickenBreast, Broccoli>>

\* a food added with addFoodToDatabase: string id, micronutrients, no cost
Lentils ==
    Food(Some(Str(<<49, 55>>)), 11600, 900, 2000, 40,
         <<Some(790), Some(200), Some(1900), Some(330), Some(0), Some(150)>>, Nothing)

\* a catalog record that lacks its id
FoodWithoutId == Food(Nothing, 10000, 100, 100, 100, NoMicros, Some(50))

\* a meal entry as stored: foodId and servings may be undefined
Entry(foodId, servings) == [foodId |-> foodId, servings |-> servings]

----------------------------------------------------------------------------
(* NutrientAggregator: calculateMealNutrition, calculateDailyNutrition *)

ZeroTotals == [f \in AllFields |-> 0]
CatchTotals == [f \in CatchFields |-> 0]

\* foodDatabase.find(f => f.id.toString() === item.foodId.toString()) from
\* position i on: the food found, none, or a TypeError
RECURSIVE FindFrom(_, _, _)
FindFrom(db, i, item) ==
    IF i > Len(db) THEN [k |-> "none"]
    ELSE IF db[i].id = Nothing \/ item.foodId = Nothing THEN [k |-> "throw"]
    ELSE IF IdToString(Val(db[i].id)) = IdToString(Val(item.foodId))
         THEN [k |-> "found", food |-> db[i]]
         ELSE FindFrom(db, i + 1, item)

\* parseFloat(item.servings) || 1, in hundredths
OrOne(p) == IF FalsyNum(p) THEN 100 ELSE Val(p)

Servings(item) == OrOne(parseFloat(item.servings))

\* a contribution rounded to one decimal before it is added
Contribution_RoundedPerEntry(food, servings, f) ==
    LET x == IF f \in MacroFields THEN food[f] * servings
             ELSE LET v == food[IF f = "cost" THEN "costPerServing" ELSE f]
                  IN  IF FalsyNum(v) THEN 0 ELSE Val(v) * servings
    IN  ((x + 500) \div 1000) * 1000

\* what one entry adds to the field f of totals, in units of 10^-4
Contribution(food, servings, f) ==
    IF f \in MacroFields THEN food[f] * servings
    ELSE LET v == food[IF f = "cost" THEN "costPerServing" ELSE f]
         IN  IF FalsyNum(v) THEN 0 ELSE Val(v) * servings

\* a callback that treats a food that is not found as an error
AddFound_ThrowOnMiss(totals, item, found) ==
    IF found.k = "found"
    THEN Some([f \in AllFields |->
                  totals[f] + Contribution(found.food, Servings(item), f)])
    ELSE Nothing

\* the body of the forEach callback: the new totals, or Nothing when it throws
AddFound(totals, item, found) ==
    IF found.k = "throw" THEN Nothing
    ELSE IF found.k = "none" THEN Some(totals)
    ELSE Some([f \in AllFields |->
                  totals[f] + Contribution(found.food, Servings(item), f)])

AddItem(totals, item, db) == AddFound(totals, item, FindFrom(db, 1, item))

RECURSIVE SumItems(_, _, _, _)
SumItems(items, db, i, totals) ==
    IF i > Len(items) \/ totals = Nothing THEN totals
    ELSE SumItems(items, db, i + 1, AddItem(Val(totals), items[i], db))

\* Math.round(x * 10) / 10 for x in units of 10^-4; the result in tenths
RoundTenth(x) == (x + 500) \div 1000

\* the rounding loop after the forEach, or the catch block when it threw
RoundedOrCaught(sum) ==
    IF sum = Nothing
    THEN [totals |-> CatchTotals, handled |-> <<"Error calculating meal nutrition">>]
    ELSE [totals |-> [f \in AllFields |-> RoundTenth(Val(sum)[f])], handled |-> <<>>]

\* calculateMealNutrition(mealItems, foodDatabase): totals in tenths
calculateMealNutrition(mealItems, foodDatabase) ==
    IF mealItems = Nothing \/ Len(Val(mealItems)) = 0
    THEN [totals |-> ZeroTotals, handled |-> <<>>]
    ELSE RoundedOrCaught(SumItems(Val(mealItems), foodDatabase, 1, Some(ZeroTotals)))

mealTypes == <<"breakfast", "lunch", "dinner", "snacks">>

\* mealNutrition[key] || 0
FieldOrZero(totals, f) == IF f \in DOMAIN totals THEN totals[f] ELSE 0

\* dailyTotals[key] += mealNutrition[key] || 0 for every key
AddMealNutrition(acc, mealNutrition) ==
    [totals |-> [f \in AllFields |-> acc.totals[f] + FieldOrZero(mealNutrition.totals, f)],
     handled |-> acc.handled \o mealNutrition.handled]

\* the mealTypes.forEach of calculateDailyNutrition from slot i on; a slot that
\* is missing or not an array is passed over
RECURSIVE SumSlots(_, _, _, _)
SumSlots(meals, db, i, acc) ==
    IF i > Len(mealTypes) THEN acc
    ELSE IF meals[mealTypes[i]] = Nothing THEN SumSlots(meals, db, i + 1, acc)
    ELSE SumSlots(meals, db, i + 1,
                  AddMealNutrition(acc, calculateMealNutrition(meals[mealTypes[i]], db)))

\* the rounding loop of calculateDailyNutrition, applied to a sum of tenths
RoundedDaily(sum) ==
    [totals |-> [f \in AllFields |-> RoundTenth(sum.totals[f] * 1000)],
     handled |-> sum.handled]

\* calculateDailyNutrition(meals, foodDatabase): totals in tenths.  The final
\* Math.round(x * 10) / 10 is applied to a sum of tenths.
calculateDailyNutrition(meals, foodDatabase) ==
    IF meals = Nothing
    THEN [totals |-> CatchTotals,
          handled |-> <<"Error calculating daily nutrition totals">>]
    ELSE RoundedDaily(SumSlots(Val(meals), foodDatabase, 1,
                               [totals |-> ZeroTotals, handled |-> <<>>]))

----------------------------------------------------------------------------
(* NutrientAggregator: calculateNutritionPercentages *)

\* CALORIES_PER_GRAM
CALORIES_PER_GRAM == [protein |-> 4, carbs |-> 4, fat |-> 9]

\* DAILY_RECOMMENDED.MACROS, in hundredths
MACROS_PERCENT == [protein |-> 15, carbs |-> 55, fat |-> 30]

\* DAILY_RECOMMENDED.MICROS
MICROS ==
    [fiber |-> 25, sodium |-> 2300, calcium |-> 1000, iron |-> 18,
     vitaminA |-> 900, vitaminC |-> 90]

DefaultCalories == 2000

\* a fallback taken from DAILY_RECOMMENDED.CALORIES.ADULT_MALE instead
TargetCalories_AdultMale(calorieNeeds) ==
    IF FalsyNum(calorieNeeds) THEN 2500 ELSE Val(calorieNeeds)

\* calorieNeeds || 2000
TargetCalories(calorieNeeds) ==
    IF FalsyNum(calorieNeeds) THEN DefaultCalories ELSE Val(calorieNeeds)

\* Math.round(p / q) for q > 0
MathRoundRatio(p, q) == (2 * p + q) \div (2 * q)

PercentFields == MacroFields \cup MicroFields

\* Math.round((nutrition[f] / recommended) * 100) as the ratio p / q, for
\* nutrition[f] = n tenths
PercentRatio(f, n, calories) ==
    IF f = "calories" THEN [p |-> 10 * n, q |-> calories]
    ELSE IF f \in MacroFields
         THEN [p |-> n * 1000 * CALORIES_PER_GRAM[f], q |-> calories * MACROS_PERCENT[f]]
         ELSE [p |-> 10 * n, q |-> MICROS[f]]

\* calculateNutritionPercentages(nutrition, calorieNeeds); a field that
\* nutrition lacks gives NaN, which is Nothing
calculateNutritionPercentages(nutrition, calorieNeeds) ==
    LET calories == TargetCalories(calorieNeeds)
    IN  [f \in PercentFields |->
            IF f \in DOMAIN nutrition
            THEN LET ratio == PercentRatio(f, nutrition[f], calories)
                 IN  Some(MathRoundRatio(ratio.p, ratio.q))
            ELSE Nothing]

----------------------------------------------------------------------------
(* DataStore: the persisted collections and the queries the calculator uses *)

\* a day's meal set with the four slots
Day(b, l, d, sn) == [breakfast |-> b, lunch |-> l, dinner |-> d, snacks |-> sn]

\* the default getMeals and getMealPlans return for a key that is not stored
EmptyDay == Day(Some(<<>>), Some(<<>>), Some(<<>>), Some(<<>>))

\* localStorage after initializeStorage: meals and mealPlans map a key to a
\* day's meal set; the key 'selectedFamilyMemberId' is not yet written
initialData ==
    [meals |-> <<>>, mealPlans |-> <<>>, familyMembers |-> <<>>,
     budget |-> [monthly |-> [k |-> "num", num |-> 0, den |-> 1]], expenses |-> <<>>,
     foodDatabase |-> initialFoodDatabase, selectedFamilyMemberId |-> Nothing]

\* `${date}_${familyMemberId}`
MealKey(date, familyMemberId) == <<date, familyMemberId>>

\* DataStore.getMeals(date, familyMemberId)
getMeals(store, date, familyMemberId) ==
    IF MealKey(date, familyMemberId) \in DOMAIN store.meals
    THEN store.meals[MealKey(date, familyMemberId)]
    ELSE EmptyDay

\* DataStore.getMealPlans(date, familyMemberId)
getMealPlans(store, date, familyMemberId) ==
    IF MealKey(date, familyMemberId) \in DOMAIN store.mealPlans
    THEN store.mealPlans[MealKey(date, familyMemberId)]
    ELSE EmptyDay

\* DataStore.getFoodDatabase()
getFoodDatabase(store) == store.foodDatabase

\* foodDb.find(food => food.id === foodId) from position i on: the food, or
\* Nothing for undefined.  Two absent ids are strictly equal, a number and a
\* string never are.
RECURSIVE FindStrictFrom(_, _, _)
FindStrictFrom(db, i, foodId) ==
    IF i > Len(db) THEN Nothing
    ELSE IF db[i].id = foodId THEN Some(db[i])
    ELSE FindStrictFrom(db, i + 1, foodId)

\* DataStore.getFoodById(foodId)
getFoodById(store, foodId) == FindStrictFrom(getFoodDatabase(store), 1, foodId)

----------------------------------------------------------------------------
(* Dates.  A Date is an instant in hours since 2023-01-01T00:00Z; a calendar *)
(* date is <<year, month, day>> with month 1..12; the invalid Date is        *)
(* Nothing.  Local time is UTC plus the timezone offset.                      *)

EpochYear == 2023

IsLeapYear(y) == (y % 4 = 0 /\ y % 100 # 0) \/ y % 400 = 0

DaysInMonth(y, m) ==
    IF m = 2 THEN (IF IsLeapYear(y) THEN 29 ELSE 28)
    ELSE IF m \in {4, 6, 9, 11} THEN 30 ELSE 31

\* the calendar date that is n days after the first day of month m of year y
RECURSIVE CivilFrom(_, _, _)
CivilFrom(y, m, n) ==
    IF n < DaysInMonth(y, m) THEN <<y, m, n + 1>>
    ELSE IF m = 12 THEN CivilFrom(y + 1, 1, n - DaysInMonth(y, m))
    ELSE CivilFrom(y, m + 1, n - DaysInMonth(y, m))

\* the number of days from the epoch to the first day of month m of year y
RECURSIVE DaysBeforeMonth(_, _)
DaysBeforeMonth(y, m) ==
    IF y = EpochYear /\ m = 1 THEN 0
    ELSE IF m = 1 THEN DaysBeforeMonth(y - 1, 12) + DaysInMonth(y - 1, 12)
    ELSE DaysBeforeMonth(y, m - 1) + DaysInMonth(y, m - 1)

\* date.toISOString().split('T')[0]: the calendar date in UTC
toISODate(t) == CivilFrom(EpochYear, 1, t \div 24)

\* the local calendar date: getFullYear(), getMonth() + 1, getDate()
LocalDate(t, tz) == CivilFrom(EpochYear, 1, (t + tz) \div 24)

\* new Date(year, month, 1): local midnight of the first day of the month
StartOfMonth(y, m, tz) == DaysBeforeMonth(y, m) * 24 - tz

\* a loop whose counter starts at 1 instead of 0
AddDays_FromOne(t, i) == t + 24 * (i + 1)

\* date.setDate(date.getDate() + i)
AddDays(t, i) == t + 24 * i

----------------------------------------------------------------------------
(* ReportGenerator: generateNutritionReport *)

Metrics == {"calories", "protein", "carbs", "fat", "cost"}

EmptyReport ==
    [labels |-> <<>>,
     datasets |-> [m \in Metrics |-> [planned |-> <<>>, consumed |-> <<>>]]]

\* loops that push every date, also those after today
DatesUpTo_NoFilter(first, count, now) ==
    [i \in 1..count |-> Some(AddDays(first, i - 1))]

\* the dates of the loops that keep "date <= today"
DatesUpTo(first, count, now) ==
    SelectSeq([i \in 1..count |-> Some(AddDays(first, i - 1))],
              LAMBDA d : Val(d) <= now)

\* the switch that fills the array dates; an invalid startDate makes the
\* monthly case throw and every comparison of the weekly case false
ReportDates(reportType, startDate, now, tz) ==
    CASE reportType = "daily" -> [thrown |-> FALSE, dates |-> <<startDate>>]
      [] reportType = "weekly" ->
            [thrown |-> FALSE,
             dates |-> IF startDate = Nothing THEN <<>>
                       ELSE DatesUpTo(Val(startDate), 7, now)]
      [] reportType = "monthly" ->
            IF startDate = Nothing THEN [thrown |-> TRUE, dates |-> <<>>]
            ELSE LET local == LocalDate(Val(startDate), tz)
                 IN  [thrown |-> FALSE,
                      dates |-> DatesUpTo(StartOfMonth(local[1], local[2], tz),
                                          DaysInMonth(local[1], local[2]), now)]
      [] OTHER -> [thrown |-> FALSE, dates |-> <<>>]

\* the consumed and the planned daily nutrition of one member on one date
MemberNutrition(store, dateString, memberId) ==
    [consumed |-> calculateDailyNutrition(Some(getMeals(store, dateString, memberId)),
                                          getFoodDatabase(store)),
     planned |-> calculateDailyNutrition(Some(getMealPlans(store, dateString, memberId)),
                                         getFoodDatabase(store))]

\* a loop that assigns the member's values to the totals instead of adding them
AddMember_Overwrite(acc, n) ==
    [consumed |-> [m \in Metrics |-> n.consumed.totals[m]],
     planned |-> [m \in Metrics |-> n.planned.totals[m]],
     handled |-> acc.handled \o n.consumed.handled \o n.planned.handled]

\* totalXConsumed += consumedNutrition.X and totalXPlanned += plannedNutrition.X
AddMember(acc, n) ==
    [consumed |-> [m \in Metrics |-> acc.consumed[m] + n.consumed.totals[m]],
     planned |-> [m \in Metrics |-> acc.planned[m] + n.planned.totals[m]],
     handled |-> acc.handled \o n.consumed.handled \o n.planned.handled]

\* familyMembers.forEach of the 'all' branch from member i on
RECURSIVE SumMembers(_, _, _, _, _)
SumMembers(store, dateString, familyMembers, i, acc) ==
    IF i > Len(familyMembers) THEN acc
    ELSE SumMembers(store, dateString, familyMembers, i + 1,
                    AddMember(acc, MemberNutrition(store, dateString, familyMembers[i].id)))

ZeroSums ==
    [consumed |-> [m \in Metrics |-> 0], planned |-> [m \in Metrics |-> 0],
     handled |-> <<>>]

\* the ten values pushed for one date; thrown when familyMembers is not an array
DateValues(store, dateString, familyMemberId, familyMembers) ==
    IF familyMemberId = "all"
    THEN IF familyMembers = Nothing
         THEN [thrown |-> TRUE, sums |-> ZeroSums]
         ELSE [thrown |-> FALSE,
               sums |-> SumMembers(store, dateString, Val(familyMembers), 1, ZeroSums)]
    ELSE [thrown |-> FALSE,
          sums |-> AddMember(ZeroSums, MemberNutrition(store, dateString, familyMemberId))]

\* report.datasets.X.consumed.push(...) and report.datasets.X.planned.push(...)
PushValues(labelled, v) ==
    IF v.thrown THEN [report |-> labelled, thrown |-> TRUE, handled |-> <<>>]
    ELSE [report |->
             [labelled EXCEPT !.datasets =
                 [m \in Metrics |->
                     [planned |-> Append(@[m].planned, v.sums.planned[m]),
                      consumed |-> Append(@[m].consumed, v.sums.consumed[m])]]],
          thrown |-> FALSE, handled |-> v.sums.handled]

\* report.labels.push(dateString)
PushLabel(report, dateString) == [report EXCEPT !.labels = Append(@, dateString)]

\* the body of dates.forEach for one date: the label is pushed first, then the
\* ten values; toISOString of an invalid Date throws
ProcessDate(report, date, store, familyMemberId, familyMembers) ==
    IF date = Nothing THEN [report |-> report, thrown |-> TRUE, handled |-> <<>>]
    ELSE PushValues(PushLabel(report, toISODate(Val(date))),
                    DateValues(store, toISODate(Val(date)), familyMemberId, familyMembers))

\* the state of the loop after one more date
AfterDate(acc, r) ==
    [report |-> r.report, thrown |-> r.thrown, handled |-> acc.handled \o r.handled]

RECURSIVE ProcessDates(_, _, _, _, _, _)
ProcessDates(dates, i, acc, store, familyMemberId, familyMembers) ==
    IF i > Len(dates) \/ acc.thrown THEN acc
    ELSE ProcessDates(dates, i + 1,
                      AfterDate(acc, ProcessDate(acc.report, dates[i], store,
                                                 familyMemberId, familyMembers)),
                      store, familyMemberId, familyMembers)

\* a catch block that hands back the report as far as it was filled
ReportOnError_Partial(partial) == partial

\* the object the catch block returns
ReportOnError(partial) == EmptyReport

\* the return statement of the try block or of the catch block
ReturnedReport(r) ==
    IF r.thrown
    THEN [report |-> ReportOnError(r.report),
          handled |-> r.handled \o <<"Error generating nutrition report">>]
    ELSE [report |-> r.report, handled |-> r.handled]

\* the loop over the dates the switch produced
ReportOfDates(rd, store, familyMemberId, familyMembers) ==
    ProcessDates(rd.dates, 1,
                 [report |-> EmptyReport, thrown |-> rd.thrown, handled |-> <<>>],
                 store, familyMemberId, familyMembers)

\* generateNutritionReport(reportType, familyMemberId, startDate, familyMembers)
\* reading the given store, with new Date() = now
generateNutritionReport(reportType, familyMemberId, startDate, familyMembers, store, now, tz) ==
    ReturnedReport(ReportOfDates(ReportDates(reportType, startDate, now, tz),
                                 store, familyMemberId, familyMembers))

----------------------------------------------------------------------------
(* Numbers of the budget computations.  A number is an exact fraction       *)
(* num/den in lowest terms with den > 0, NaN, or an infinity whose sign is   *)
(* num; null is the JSON image of NaN.  Money is in units of 10^-4.          *)

RECURSIVE Gcd(_, _)
Gcd(a, b) == IF b = 0 THEN a ELSE Gcd(b, a % b)

Abs(x) == IF x < 0 THEN 0 - x ELSE x

NaN == [k |-> "nan", num |-> 0, den |-> 1]
Null == [k |-> "null", num |-> 0, den |-> 1]
Infinity(sign) == [k |-> "inf", num |-> sign, den |-> 1]
Number(n) == [k |-> "num", num |-> n, den |-> 1]

\* n/d for d > 0, in lowest terms
Reduced(n, d, g) == [k |-> "num", num |-> n \div g, den |-> d \div g]
Fraction(n, d) == Reduced(n, d, Gcd(Abs(n), d))

SignOf(x) == IF x.num > 0 THEN 1 ELSE IF x.num < 0 THEN 0 - 1 ELSE 0

\* ToNumber: null counts as 0 in arithmetic
ToNumber(x) == IF x.k = "null" THEN Number(0) ELSE x

\* a + b
JsAdd(a, b) ==
    IF a.k = "nan" \/ b.k = "nan" THEN NaN
    ELSE IF a.k = "inf" /\ b.k = "inf" THEN (IF a.num = b.num THEN a ELSE NaN)
    ELSE IF a.k = "inf" THEN a
    ELSE IF b.k = "inf" THEN b
    ELSE Fraction(a.num * b.den + b.num * a.den, a.den * b.den)

\* a - b
JsSub(a, b) == JsAdd(a, [b EXCEPT !.num = 0 - @])

\* a * b
JsMul(a, b) ==
    IF a.k = "nan" \/ b.k = "nan" THEN NaN
    ELSE IF a.k = "inf" \/ b.k = "inf"
         THEN (IF SignOf(a) * SignOf(b) = 0 THEN NaN ELSE Infinity(SignOf(a) * SignOf(b)))
    ELSE Fraction(a.num * b.num, a.den * b.den)

\* a / b; the sign of a zero divisor is taken as positive
JsDiv(a, b) ==
    IF a.k = "nan" \/ b.k = "nan" THEN NaN
    ELSE IF a.k = "inf" /\ b.k = "inf" THEN NaN
    ELSE IF a.k = "inf" THEN Infinity(IF SignOf(b) < 0 THEN 0 - a.num ELSE a.num)
    ELSE IF b.k = "inf" THEN Number(0)
    ELSE IF b.num = 0 THEN (IF a.num = 0 THEN NaN ELSE Infinity(SignOf(a)))
    ELSE IF b.num > 0 THEN Fraction(a.num * b.den, a.den * b.num)
    ELSE Fraction((0 - a.num) * b.den, a.den * (0 - b.num))

\* a <= b and a > b; both are false when an operand is NaN
JsLeq(a, b) ==
    /\ a.k # "nan" /\ b.k # "nan"
    /\ IF a.k = "inf" THEN (a.num < 0 \/ (b.k = "inf" /\ b.num > 0))
       ELSE IF b.k = "inf" THEN b.num > 0
       ELSE a.num * b.den <= b.num * a.den

JsGreater(a, b) == a.k # "nan" /\ b.k # "nan" /\ ~JsLeq(a, b)

\* Math.min(a, b)
MathMin(a, b) ==
    IF a.k = "nan" \/ b.k = "nan" THEN NaN ELSE IF JsLeq(a, b) THEN a ELSE b

\* x || 0
OrZero(x) == IF x.k = "nan" \/ (x.k = "num" /\ x.num = 0) THEN Number(0) ELSE x

\* JSON.parse(JSON.stringify(x)) of a number: NaN and the infinities become null
JsonNumber(x) == IF x.k \in {"nan", "inf"} THEN Null ELSE x

----------------------------------------------------------------------------
(* Date texts: 'YYYY-MM' month selectors and 'YYYY-MM-DD' dates as character *)
(* codes                                                                     *)

Dash == 45

\* n.toString().padStart(2, '0')
Pad2(n) == IF n < 10 THEN <<48>> \o Digits(n) ELSE Digits(n)

\* toISOString().slice(0, 7) of a calendar date
MonthString(date) == Digits(date[1]) \o <<Dash>> \o Pad2(date[2])

\* the 'YYYY-MM-DD' text of a calendar date
DateString(date) == MonthString(date) \o <<Dash>> \o Pad2(date[3])

\* s.startsWith(prefix)
StartsWith(s, prefix) == Len(prefix) <= Len(s) /\ SubSeq(s, 1, Len(prefix)) = prefix

\* the length of the run of characters of s from position i up to the next '-'
RECURSIVE RunToDash(_, _)
RunToDash(s, i) == IF i <= Len(s) /\ s[i] # Dash THEN 1 + RunToDash(s, i + 1) ELSE 0

\* s.split('-')[0] and s.split('-')[1]; the latter is undefined without a '-'
SplitDash0(s) == SubSeq(s, 1, RunToDash(s, 1))
SplitDash1(s) ==
    IF RunToDash(s, 1) = Len(s) THEN Nothing
    ELSE Some(SubSeq(s, RunToDash(s, 1) + 2, RunToDash(s, 1) + 1 + RunToDash(s, RunToDash(s, 1) + 2)))

\* parseInt of an unsigned text or of undefined; Nothing is NaN
parseInt(x) ==
    IF x = Nothing \/ DigitRun(Val(x), 1) = 0 THEN Nothing
    ELSE Some(DigitsValue(Val(x), 1, DigitRun(Val(x), 1)))

\* new Date(year, monthIndex + 1, 0).getDate(): the last day of the month with
\* the 0-based index monthIndex, which may lie outside 0..11
LastDayOfMonth(year, monthIndex) ==
    DaysInMonth(year + (monthIndex \div 12), (monthIndex % 12) + 1)

\* new Date('YYYY-MM-DD') for a calendar date: UTC midnight, or the invalid
\* Date; years before EpochYear are not represented
DateOfLabel(date) ==
    IF date[1] \in EpochYear..9999 /\ date[2] \in 1..12 /\ date[3] \in 1..DaysInMonth(date[1], date[2])
    THEN Some((DaysBeforeMonth(date[1], date[2]) + date[3] - 1) * 24)
    ELSE Nothing

----------------------------------------------------------------------------
(* DataStore: budget, expenses and meal costs *)

\* DataStore.getBudget() and DataStore.getExpenses()
getBudget(store) == store.budget
getExpenses(store) == store.expenses

\* an expense record as addExpense builds it; the description is not modelled
Expense(id, date, amount) == [id |-> id, date |-> date, amount |-> amount]

\* dayCost += food.costPerServing * (parseFloat(item.servings) || 1), guarded
\* by "food && food.costPerServing"; Nothing when the lookup throws
AddItemCost(cost, item, found) ==
    IF found.k = "throw" THEN Nothing
    ELSE IF found.k = "found" /\ ~FalsyNum(found.food.costPerServing)
         THEN Some(cost + Val(found.food.costPerServing) * Servings(item))
         ELSE Some(cost)

\* dayMeals[mealType].forEach from entry i on
RECURSIVE SlotCost(_, _, _, _)
SlotCost(items, db, i, cost) ==
    IF i > Len(items) \/ cost = Nothing THEN cost
    ELSE SlotCost(items, db, i + 1, AddItemCost(Val(cost), items[i], FindFrom(db, 1, items[i])))

\* the forEach over the four meal types from type i on
RECURSIVE DayCost(_, _, _, _)
DayCost(dayMeals, db, i, cost) ==
    IF i > Len(mealTypes) \/ cost = Nothing THEN cost
    ELSE DayCost(dayMeals, db, i + 1,
                 IF dayMeals[mealTypes[i]] = Nothing THEN cost
                 ELSE SlotCost(Val(dayMeals[mealTypes[i]]), db, 1, cost))

\* a range test that leaves out the end date
DateInRange_EndExclusive(mealDate, start, end) ==
    /\ mealDate # Nothing /\ start # Nothing /\ end # Nothing
    /\ Val(mealDate) >= Val(start) /\ Val(mealDate) < Val(end)

\* mealDate >= start && mealDate <= end, false when a Date is invalid
DateInRange(mealDate, start, end) ==
    /\ mealDate # Nothing /\ start # Nothing /\ end # Nothing
    /\ Val(mealDate) >= Val(start) /\ Val(mealDate) <= Val(end)

\* the stored keys that pass the date and member test of getMealCostsForDateRange
CostKeys(store, start, end, familyMemberId) ==
    {key \in DOMAIN store.meals :
        /\ DateInRange(DateOfLabel(key[1]), start, end)
        /\ (familyMemberId = Nothing \/ key[2] = Val(familyMemberId))}

\* DataStore.getMealCostsForDateRange(startDate, endDate, familyMemberId): the
\* cost of each stored day that passes the test, in units of 10^-4; thrown
\* when a lookup throws
getMealCostsForDateRange(store, start, end, familyMemberId) ==
    [costs |-> [key \in CostKeys(store, start, end, familyMemberId) |->
                   DayCost(store.meals[key], getFoodDatabase(store), 1, Some(0))],
     thrown |-> \E key \in CostKeys(store, start, end, familyMemberId) :
                   DayCost(store.meals[key], getFoodDatabase(store), 1, Some(0)) = Nothing]

----------------------------------------------------------------------------
(* BudgetTracker: the state currentMonth, expenses, monthlyBudget and the    *)
(* computations of updateBudgetSummary                                        *)

\* the module's state when the script is loaded at the instant now
InitialTracker(now) ==
    [currentMonth |-> MonthString(toISODate(now)), expenses |-> <<>>,
     monthlyBudget |-> Number(0)]

\* parseInt(currentMonth.split('-')[0]) and parseInt(currentMonth.split('-')[1])
SelectedYear(currentMonth) == parseInt(Some(SplitDash0(currentMonth)))
SelectedMonth(currentMonth) == parseInt(SplitDash1(currentMonth))

\* the selector parses to two numbers
MonthParses(currentMonth) ==
    SelectedYear(currentMonth) # Nothing /\ SelectedMonth(currentMonth) # Nothing

\* year === now.getFullYear() && month === now.getMonth()
IsCurrentMonth(currentMonth, now, tz) ==
    /\ MonthParses(currentMonth)
    /\ Val(SelectedYear(currentMonth)) = LocalDate(now, tz)[1]
    /\ Val(SelectedMonth(currentMonth)) - 1 = LocalDate(now, tz)[2] - 1

\* const daysInMonth = new Date(year, month + 1, 0).getDate()
daysInMonth(currentMonth) ==
    IF MonthParses(currentMonth)
    THEN Number(LastDayOfMonth(Val(SelectedYear(currentMonth)),
                               Val(SelectedMonth(currentMonth)) - 1))
    ELSE NaN

\* now.getDate()
daysPassed(now, tz) == Number(LocalDate(now, tz)[3])

\* calculateDailyAverage(totalSpent)
calculateDailyAverage(totalSpent, currentMonth, now, tz) ==
    JsDiv(totalSpent, IF IsCurrentMonth(currentMonth, now, tz) THEN daysPassed(now, tz)
                      ELSE daysInMonth(currentMonth))

\* an estimate that extrapolates with the month's length for every month
calculateEstimatedTotal_AlwaysExtrapolate(totalSpent, currentMonth, now, tz) ==
    JsAdd(totalSpent,
          JsMul(JsDiv(totalSpent, daysPassed(now, tz)),
                JsSub(daysInMonth(currentMonth), daysPassed(now, tz))))

\* calculateEstimatedTotal(totalSpent)
calculateEstimatedTotal(totalSpent, currentMonth, now, tz) ==
    IF ~IsCurrentMonth(currentMonth, now, tz) THEN totalSpent
    ELSE JsAdd(totalSpent,
               JsMul(JsDiv(totalSpent, daysPassed(now, tz)),
                     JsSub(daysInMonth(currentMonth), daysPassed(now, tz))))

\* parseFloat(expense.amount) of a stored amount
ParseFloatAmount(amount) == IF amount.k = "null" THEN NaN ELSE amount

\* the filter and the reduce of calculateMonthlyExpenses from expense i on
RECURSIVE SumExpenses(_, _, _, _)
SumExpenses(expenses, currentMonth, i, total) ==
    IF i > Len(expenses) THEN total
    ELSE SumExpenses(expenses, currentMonth, i + 1,
                     IF StartsWith(expenses[i].date, currentMonth)
                     THEN JsAdd(total, ParseFloatAmount(expenses[i].amount))
                     ELSE total)

\* calculateMonthlyExpenses()
calculateMonthlyExpenses(expenses, currentMonth) ==
    SumExpenses(expenses, currentMonth, 1, Number(0))

\* new Date(`${year}-${month}-01`) and new Date(`${year}-${month}-${lastDay}`)
MonthStart(currentMonth) ==
    IF MonthParses(currentMonth)
    THEN DateOfLabel(<<Val(SelectedYear(currentMonth)), Val(SelectedMonth(currentMonth)), 1>>)
    ELSE Nothing

MonthEnd(currentMonth) ==
    IF MonthParses(currentMonth)
    THEN DateOfLabel(<<Val(SelectedYear(currentMonth)), Val(SelectedMonth(currentMonth)),
                       LastDayOfMonth(Val(SelectedYear(currentMonth)),
                                      Val(SelectedMonth(currentMonth)) - 1)>>)
    ELSE Nothing

\* mealCosts.reduce((total, item) => total + item.cost, 0)
RECURSIVE SumCosts(_, _)
SumCosts(costs, keys) ==
    IF keys = {} THEN 0
    ELSE Val(costs[CHOOSE key \in keys : TRUE])
            + SumCosts(costs, keys \ {CHOOSE key \in keys : TRUE})

\* the return of the try block or of the catch block of calculateMonthlyMealCosts
MealCostTotal(r) ==
    IF r.thrown
    THEN [value |-> Number(0), handled |-> <<"Failed to calculate monthly meal costs">>]
    ELSE [value |-> Number(SumCosts(r.costs, DOMAIN r.costs)), handled |-> <<>>]

\* calculateMonthlyMealCosts()
calculateMonthlyMealCosts(currentMonth, store) ==
    MealCostTotal(getMealCostsForDateRange(store, MonthStart(currentMonth),
                                           MonthEnd(currentMonth), Nothing))

\* a progress percentage without the cap at 100
Percentage_NoCap(amount, monthlyBudget) ==
    OrZero(JsMul(JsDiv(amount, ToNumber(monthlyBudget)), Number(100)))

\* Math.min((amount / monthlyBudget) * 100, 100) || 0
Percentage(amount, monthlyBudget) ==
    OrZero(MathMin(JsMul(JsDiv(amount, ToNumber(monthlyBudget)), Number(100)), Number(100)))

\* the values updateBudgetSummary writes into the summary element.  With a
\* null monthlyBudget, monthlyBudget.toFixed throws before anything is written;
\* otherwise the summary is written and the call of calculateAndDisplayMealCosts,
\* a function the script does not define, throws after it.
RenderedSummary(totalExpenses, mealCosts, combinedExpenses, estimatedTotal, tracker, now, tz) ==
    [result |->
        IF tracker.monthlyBudget.k = "null" THEN Nothing
        ELSE Some([monthlyBudget |-> tracker.monthlyBudget,
                   totalExpenses |-> totalExpenses,
                   mealCosts |-> mealCosts.value,
                   combinedExpenses |-> combinedExpenses,
                   remainingBudget |-> JsSub(tracker.monthlyBudget, combinedExpenses),
                   dailyAverage |-> calculateDailyAverage(combinedExpenses,
                                                          tracker.currentMonth, now, tz),
                   estimatedTotal |-> estimatedTotal,
                   projectedRemaining |-> JsSub(tracker.monthlyBudget, estimatedTotal),
                   spentPercentage |-> Percentage(combinedExpenses, tracker.monthlyBudget),
                   projectedPercentage |-> Percentage(estimatedTotal, tracker.monthlyBudget),
                   spentOverBudget |->
                       JsGreater(Percentage(combinedExpenses, tracker.monthlyBudget), Number(100)),
                   projectedOverBudget |->
                       JsGreater(Percentage(estimatedTotal, tracker.monthlyBudget), Number(100))]),
     handled |-> mealCosts.handled \o <<"Failed to update budget summary">>]

\* estimatedTotal = calculateEstimatedTotal(combinedExpenses)
SummaryOfCombined(totalExpenses, mealCosts, combinedExpenses, tracker, now, tz) ==
    RenderedSummary(totalExpenses, mealCosts, combinedExpenses,
                    calculateEstimatedTotal(combinedExpenses, tracker.currentMonth, now, tz),
                    tracker, now, tz)

\* combinedExpenses = totalExpenses + mealCosts
SummaryOfTotals(totalExpenses, mealCosts, tracker, now, tz) ==
    SummaryOfCombined(totalExpenses, mealCosts, JsAdd(totalExpenses, mealCosts.value),
                      tracker, now, tz)

\* updateBudgetSummary() with the summary element present
updateBudgetSummary(tracker, store, now, tz) ==
    SummaryOfTotals(calculateMonthlyExpenses(tracker.expenses, tracker.currentMonth),
                    calculateMonthlyMealCosts(tracker.currentMonth, store),
                    tracker, now, tz)

\* Date.now().toString() of the clock reading
ClockId(now) == Digits(now)

\* a weekly loop that advances the caller's Date object itself
ArgumentsAfterReport_AnchorMoved(args) ==
    IF args.reportType = "weekly" /\ args.startDate # Nothing
    THEN [args EXCEPT !.startDate = Some(AddDays(Val(@), 6))]
    ELSE args

\* the caller's arguments as generateNutritionReport leaves them: startDate is
\* copied with new Date(startDate) or read with getFullYear and getMonth, and
\* familyMembers is only iterated
ArgumentsAfterReport(args) == args

----------------------------------------------------------------------------
(* DataStore: writing meals.  saveData returns false and leaves the storage  *)
(* as it was when localStorage.setItem throws; ok is the outcome of the      *)
(* write.                                                                     *)

\* a save that writes the given day as the only stored day
saveMeals_DropOtherKeys(store, date, familyMemberId, meals, ok) ==
    IF ok THEN [store EXCEPT !.meals = MealKey(date, familyMemberId) :> meals]
    ELSE store

\* DataStore.saveMeals(date, familyMemberId, meals): allMeals[key] = meals
saveMeals(store, date, familyMemberId, meals, ok) ==
    IF ok THEN [store EXCEPT !.meals = (MealKey(date, familyMemberId) :> meals) @@ @]
    ELSE store

\* DataStore.saveMealPlans(date, familyMemberId, mealPlans)
saveMealPlans(store, date, familyMemberId, mealPlans, ok) ==
    IF ok THEN [store EXCEPT !.mealPlans = (MealKey(date, familyMemberId) :> mealPlans) @@ @]
    ELSE store

\* array.splice(index, 1), with positions counted from 1
Splice(items, index) ==
    SubSeq(items, 1, index - 1) \o SubSeq(items, index + 1, Len(items))

\* !day[mealType] || !day[mealType][index]
NoItemAt(day, mealType, index) ==
    day[mealType] = Nothing \/ index \notin 1..Len(Val(day[mealType]))

\* meals[mealType].push(item), after "if (!meals[mealType]) meals[mealType] = []"
PushItem(day, mealType, item) ==
    [day EXCEPT ![mealType] =
        IF @ = Nothing THEN Some(<<item>>) ELSE Some(Append(Val(@), item))]

\* the entry convertPlanToMeal pushes to the consumed meals; the timestamps
\* are not modelled
ConsumedItem(planItem) ==
    [foodId |-> planItem.foodId, servings |-> planItem.servings,
     notes |-> planItem.notes, planned |-> TRUE]

\* the plan without the converted entry
PlanWithout(mealPlans, mealType, planIndex) ==
    [mealPlans EXCEPT ![mealType] = Some(Splice(Val(@), planIndex))]

\* the two writes of convertPlanToMeal: their results are not looked at
ConvertWrites(store, date, familyMemberId, meals, mealPlans, ok1, ok2) ==
    saveMealPlans(saveMeals(store, date, familyMemberId, meals, ok1),
                  date, familyMemberId, mealPlans, ok2)

\* DataStore.convertPlanToMeal(date, familyMemberId, mealType, planIndex) with
\* the outcomes ok1 of saveMeals and ok2 of saveMealPlans
convertPlanToMeal(store, date, familyMemberId, mealType, planIndex, ok1, ok2) ==
    IF NoItemAt(getMealPlans(store, date, familyMemberId), mealType, planIndex)
    THEN [store |-> store, result |-> FALSE]
    ELSE [store |->
             ConvertWrites(store, date, familyMemberId,
                 PushItem(getMeals(store, date, familyMemberId), mealType,
                          ConsumedItem(Val(getMealPlans(store, date, familyMemberId)[mealType])[planIndex])),
                 PlanWithout(getMealPlans(store, date, familyMemberId), mealType, planIndex),
                 ok1, ok2),
          result |-> TRUE]

----------------------------------------------------------------------------
(* MealTracker: the state currentDate, currentFamilyMemberId, meals,         *)
(* mealPlans, viewMode and the operations on it.  An operation gives the new *)
(* tracker, the new storage and the errors handed to ErrorHandler.  The      *)
(* rendering that follows a change reads the state only.                     *)

\* "let meals = {}": an object without slots
NoSlots == Day(Nothing, Nothing, Nothing, Nothing)

\* the module's state when the script is loaded at the instant t
InitialMealTracker(t) ==
    [currentDate |-> toISODate(t), currentFamilyMemberId |-> Nothing,
     meals |-> NoSlots, mealPlans |-> NoSlots, viewMode |-> "consumed"]

\* loadMeals(): nothing is read without a selected member
loadMeals(tracker, store) ==
    IF tracker.currentFamilyMemberId = Nothing THEN tracker
    ELSE [tracker EXCEPT
             !.meals = getMeals(store, tracker.currentDate, Val(tracker.currentFamilyMemberId)),
             !.mealPlans = getMealPlans(store, tracker.currentDate,
                                        Val(tracker.currentFamilyMemberId))]

\* changeFamilyMember(familyMemberId)
changeFamilyMember(tracker, store, familyMemberId) ==
    loadMeals([tracker EXCEPT !.currentFamilyMemberId = Some(familyMemberId)], store)

\* the change listener of the date picker
changeDate(tracker, store, date) == loadMeals([tracker EXCEPT !.currentDate = date], store)

\* the click listeners of 'prev-day' and 'next-day': setDate(getDate() + days)
\* on new Date(currentDate), written back with toISOString
shiftDate(tracker, store, days) ==
    changeDate(tracker, store,
               toISODate(AddDays(Val(DateOfLabel(tracker.currentDate)), days)))

\* the entry addMeal and updateMeal build from the form values; servings is
\* parseFloat(servings) || 1 in hundredths, the timestamps are not modelled
MealItem(foodId, servings, notes, status) ==
    [foodId |-> Some(Str(foodId)), servings |-> Some(Num(OrOne(ParseFloatString(servings)))),
     notes |-> notes, status |-> status]

\* the cached set of a kind, and the tracker with that set replaced
CachedSet(tracker, kind) == IF kind = "consumed" THEN tracker.meals ELSE tracker.mealPlans

WithCachedSet(tracker, kind, day) ==
    IF kind = "consumed" THEN [tracker EXCEPT !.meals = day]
    ELSE [tracker EXCEPT !.mealPlans = day]

\* "Save changes": saveMeals for the consumed kind, saveMealPlans otherwise,
\* under the current date and member
SaveChanges(tracker, store, kind, ok) ==
    IF kind = "consumed"
    THEN saveMeals(store, tracker.currentDate, Val(tracker.currentFamilyMemberId),
                   tracker.meals, ok)
    ELSE saveMealPlans(store, tracker.currentDate, Val(tracker.currentFamilyMemberId),
                       tracker.mealPlans, ok)

\* the tracker after the cached set of the kind was changed in place, and the
\* storage after "Save changes"
Saved(tracker, store, kind, ok) ==
    [tracker |-> tracker, store |-> SaveChanges(tracker, store, kind, ok), handled |-> <<>>]

\* addMeal(mealType, foodId, servings, notes, status)
addMeal(tracker, store, mealType, foodId, servings, notes, status, ok) ==
    Saved(WithCachedSet(tracker, status,
                        PushItem(CachedSet(tracker, status), mealType,
                                 MealItem(foodId, servings, notes, status))),
          store, status, ok)

\* targetData[mealType][index].status || viewMode
StatusOrMode(item, viewMode) ==
    IF "status" \in DOMAIN item THEN item.status ELSE viewMode

\* updateMeal(mealType, index, foodId, servings, notes) on the set of the view mode
updateMeal(tracker, store, mealType, index, foodId, servings, notes, ok) ==
    IF NoItemAt(CachedSet(tracker, tracker.viewMode), mealType, index)
    THEN [tracker |-> tracker, store |-> store, handled |-> <<"Failed to update meal">>]
    ELSE Saved(WithCachedSet(tracker, tracker.viewMode,
                   [CachedSet(tracker, tracker.viewMode) EXCEPT ![mealType] =
                       Some([Val(@) EXCEPT ![index] =
                                MealItem(foodId, servings, notes,
                                         StatusOrMode(@, tracker.viewMode))])]),
               store, tracker.viewMode, ok)

\* deleteMeal(mealType, index) on the set of the view mode
deleteMeal(tracker, store, mealType, index, ok) ==
    IF NoItemAt(CachedSet(tracker, tracker.viewMode), mealType, index)
    THEN [tracker |-> tracker, store |-> store, handled |-> <<"Failed to delete meal">>]
    ELSE Saved(WithCachedSet(tracker, tracker.viewMode,
                   [CachedSet(tracker, tracker.viewMode) EXCEPT ![mealType] =
                       Some(Splice(Val(@), index))]),
               store, tracker.viewMode, ok)

\* the rest of consumePlannedMeal after convertPlanToMeal returned: the cached
\* sets are read again when it returned true
AfterConvert(tracker, converted) ==
    [tracker |-> IF converted.result THEN loadMeals(tracker, converted.store) ELSE tracker,
     store |-> converted.store, handled |-> <<>>]

\* consumePlannedMeal(mealType, index)
consumePlannedMeal(tracker, store, mealType, index, ok1, ok2) ==
    AfterConvert(tracker,
                 convertPlanToMeal(store, tracker.currentDate,
                                   Val(tracker.currentFamilyMemberId),
                                   mealType, index, ok1, ok2))

----------------------------------------------------------------------------
(* DataStore: records whose id is Date.now().toString().  t is the clock     *)
(* reading of the call and ok the outcome of the write; a failed write       *)
(* leaves the storage as it was and the function returns null.               *)

\* DataStore.getFamilyMembers()
getFamilyMembers(store) == store.familyMembers

\* the record addFamilyMember builds; the details gender, weightUnit and
\* heightUnit are added by the caller afterwards
NewMember(t, name) == [id |-> ClockId(t), name |-> name, details |-> Nothing]

\* DataStore.addFamilyMember(name, age, weight, height, activityLevel)
addFamilyMember(store, t, name, ok) ==
    IF ok THEN [store EXCEPT !.familyMembers = Append(@, NewMember(t, name))] ELSE store

\* DataStore.addExpense(date, description, amount)
addExpense(store, t, date, amount, ok) ==
    IF ok THEN [store EXCEPT !.expenses = Append(@, Expense(ClockId(t), date, JsonNumber(amount)))]
    ELSE store

\* { id: Date.now().toString(), ...food }: an id of the given food replaces
\* the clock's
NewFood(t, food) ==
    IF food.id = Nothing THEN [food EXCEPT !.id = Some(Str(ClockId(t)))] ELSE food

\* DataStore.addFoodToDatabase(food)
addFoodToDatabase(store, t, food, ok) ==
    IF ok THEN [store EXCEPT !.foodDatabase = Append(@, NewFood(t, food))] ELSE store

----------------------------------------------------------------------------
(* App: family members and the 'family-member' dropdown *)

\* members.findIndex(m => m.id === id) from position i on; 0 when none has it
RECURSIVE FindIndexFrom(_, _, _)
FindIndexFrom(members, i, id) ==
    IF i > Len(members) THEN 0
    ELSE IF members[i].id = id THEN i
    ELSE FindIndexFrom(members, i + 1, id)

\* familyMembers[memberIndex] = {...familyMembers[memberIndex], gender,
\* weightUnit, heightUnit} on the first member that has the id
WithDetails(members, index, details) ==
    IF index = 0 THEN members
    ELSE [members EXCEPT ![index] = [@ EXCEPT !.details = Some(details)]]

\* DataStore.addFamilyMember followed by the update of the member found under
\* the new id and saveFamilyMembers; nothing happens when the first write fails
AddMemberWithDetails(store, t, name, details, ok) ==
    IF ok
    THEN [store EXCEPT !.familyMembers =
             WithDetails(Append(@, NewMember(t, name)),
                         FindIndexFrom(Append(@, NewMember(t, name)), 1, ClockId(t)),
                         details)]
    ELSE store

\* DEFAULT_FAMILY_MEMBERS
DEFAULT_FAMILY_MEMBERS ==
    <<[name |-> "Selman", details |-> "male"], [name |-> "Aybike", details |-> "female"],
      [name |-> "Alina", details |-> "female"]>>

\* the forEach over DEFAULT_FAMILY_MEMBERS from member i on, the call for
\* member i reading the clock at t + ticks[i]
RECURSIVE SeedFrom(_, _, _, _, _)
SeedFrom(store, i, t, ticks, ok) ==
    IF i > Len(DEFAULT_FAMILY_MEMBERS) THEN store
    ELSE SeedFrom(AddMemberWithDetails(store, t + ticks[i], DEFAULT_FAMILY_MEMBERS[i].name,
                                       DEFAULT_FAMILY_MEMBERS[i].details, ok),
                  i + 1, t, ticks, ok)

\* the storage after the first part of setupFamilyMembers: default members are
\* created when none exist
SeededStore(store, t, ticks, ok) ==
    IF Len(getFamilyMembers(store)) = 0 THEN SeedFrom(store, 1, t, ticks, ok) ELSE store

\* the dropdown after populateFamilyMemberDropdown(familyMembers): one option
\* per member, the first option selected
PopulatedSelect(members) ==
    [options |-> [i \in 1..Len(members) |-> members[i].id],
     value |-> IF Len(members) = 0 THEN Nothing ELSE Some(members[1].id)]

\* localStorage.setItem('selectedFamilyMemberId', familyMemberSelect.value),
\* done when the dropdown has options
WithSelectedId(store, select, ok) ==
    IF ok /\ Len(select.options) > 0
    THEN [store EXCEPT !.selectedFamilyMemberId = select.value]
    ELSE store

\* getCurrentFamilyMemberId(): the stored id, else the dropdown's value, else
\* the first member's id, else null
getCurrentFamilyMemberId(store, select) ==
    IF store.selectedFamilyMemberId # Nothing THEN store.selectedFamilyMemberId
    ELSE IF Len(select.options) > 0 THEN select.value
    ELSE IF Len(getFamilyMembers(store)) > 0 THEN Some(getFamilyMembers(store)[1].id)
    ELSE Nothing

\* MealTracker.initialize(familyMemberId), called when the id is not null
InitializedMealTracker(t, store, familyMemberId) ==
    IF familyMemberId = Nothing THEN InitialMealTracker(t)
    ELSE changeFamilyMember(InitialMealTracker(t), store, Val(familyMemberId))

\* an empty dropdown
EmptySelect == [options |-> <<>>, value |-> Nothing]

----------------------------------------------------------------------------
(* ErrorHandler: the error banner.  An error is its code and the position k  *)
(* of its handleError call among the calls of the session; a timer is the    *)
(* pending callback of one displayError call, with the instant it is due.    *)

\* ERROR_CODES
ERROR_CODES ==
    [DATA_STORAGE_ERROR |-> 1001, DATA_PARSE_ERROR |-> 1002, DATA_NOT_FOUND |-> 1003,
     UI_RENDER_ERROR |-> 2001, UI_INTERACTION_ERROR |-> 2002,
     MEAL_ADD_ERROR |-> 3001, MEAL_DELETE_ERROR |-> 3002, MEAL_UPDATE_ERROR |-> 3003,
     BUDGET_ADD_ERROR |-> 4001, BUDGET_DELETE_ERROR |-> 4002, BUDGET_UPDATE_ERROR |-> 4003,
     NUTRITION_CALC_ERROR |-> 5001, UNKNOWN_ERROR |-> 9999]

\* "if (errorObj.code < 9000)" and "setTimeout(..., 5000)"
CriticalFrom == 9000
AutoHideDelay == 5000

\* the banner of a page without errors
HiddenBanner == [hidden |-> TRUE, error |-> Nothing, handled |-> 0, timers |-> {}]

\* the timers after displayError: a non-critical error adds one, nothing is
\* cancelled
NewTimers(banner, code, t) ==
    IF code < CriticalFrom
    THEN banner.timers \cup {[due |-> t + AutoHideDelay, error |-> banner.handled + 1]}
    ELSE banner.timers

\* handleError(code, message, details) at the instant t: the banner shows the
\* error
handleError(banner, code, t) ==
    [hidden |-> FALSE, error |-> Some([code |-> code, k |-> banner.handled + 1, shownAt |-> t]),
     handled |-> banner.handled + 1, timers |-> NewTimers(banner, code, t)]

\* the callback of setTimeout: errorBanner.classList.add('hidden')
timerFired(banner, timer) == [banner EXCEPT !.hidden = TRUE, !.timers = @ \ {timer}]

\* the click listener of 'close-error'
closeError(banner) == [banner EXCEPT !.hidden = TRUE]

\* the state of the page's modules before App.initialize
ScriptsLoaded ==
    /\ mealTracker = InitialMealTracker(today)
    /\ familyMemberSelect = EmptySelect
    /\ errorBanner = HiddenBanner
    /\ dateNow = 0

----------------------------------------------------------------------------
(* Inputs of the energy model *)

Genders == {Nothing, Some(StrMale), Some(StrMALE), Some(StrMaleCap), Some(StrFemale)}
Weights == {Nothing} \cup {Some(75 + 45 * i) : i \in 0..WeightSamples}
Heights == {Nothing} \cup {Some(70 + 55 * i) : i \in 0..HeightSamples}
Ages == {Nothing} \cup {Some(32 + 13 * i) : i \in 0..AgeSamples}
WeightUnits == {Nothing, Some("kg"), Some("lb")}
HeightUnits == {Nothing, Some("cm"), Some("in")}
ActivityLevels ==
    {Nothing, Some("SEDENTARY"), Some("LIGHT"), Some("MODERATE"), Some("ACTIVE"),
     Some("VERY_ACTIVE"), Some("moderate"), Some("EXTREME")}
BmrInputs == {0, 1500, 1775, 1780, 1801}

Persons ==
    [gender : Genders, weight : Weights, height : Heights, age : Ages,
     weightUnit : WeightUnits, heightUnit : HeightUnits, activityLevel : ActivityLevels]

PersonArgs == {Nothing} \cup {Some(p) : p \in Persons}

NoCall == [op |-> "none"]

----------------------------------------------------------------------------
(* The energy model as a state machine: the arguments are drawn initially,  *)
(* each action is one call with them                                        *)

InitEnergy ==
    /\ input \in [kind : {"person"}, person : PersonArgs]
                \cup [kind : {"tdee"}, bmr : BmrInputs, activityLevel : ActivityLevels]
    /\ call = NoCall
    /\ localStorage = initialData
    /\ today = 0
    /\ timezone = 0
    /\ budgetTracker = InitialTracker(today)
    /\ ScriptsLoaded

CallCalculateBMR ==
    /\ input.kind = "person"
    /\ call' = [op |-> "calculateBMR",
                result |-> calculateBMR(input.person).value,
                handled |-> calculateBMR(input.person).handled]
    /\ UNCHANGED <<input, localStorage, today, timezone, budgetTracker>>
    /\ UNCHANGED pageVars

CallCalculateTDEE ==
    /\ input.kind = "tdee"
    /\ call' = [op |-> "calculateTDEE",
                result |-> calculateTDEE(input.bmr, input.activityLevel).value,
                handled |-> calculateTDEE(input.bmr, input.activityLevel).handled]
    /\ UNCHANGED <<input, localStorage, today, timezone, budgetTracker>>
    /\ UNCHANGED pageVars

CallCalculateDailyCalorieNeeds ==
    /\ input.kind = "person"
    /\ call' = [op |-> "calculateDailyCalorieNeeds",
                bmr |-> calculateDailyCalorieNeeds(input.person).bmr,
                result |-> calculateDailyCalorieNeeds(input.person).value,
                handled |-> calculateDailyCalorieNeeds(input.person).handled]
    /\ UNCHANGED <<input, localStorage, today, timezone, budgetTracker>>
    /\ UNCHANGED pageVars

NextEnergy ==
    \/ CallCalculateBMR
    \/ CallCalculateTDEE
    \/ CallCalculateDailyCalorieNeeds

SpecEnergy == InitEnergy /\ [][NextEnergy]_vars

----------------------------------------------------------------------------
(* Inputs of the nutrient aggregator *)

SeqsUpTo(S, n) == UNION {[1..k -> S] : k \in 0..n}

\* "1", "3", "9" and "abc", "1.5" as character codes
Str1 == <<49>>
Str3 == <<51>>
Str9 == <<57>>
StrAbc == <<97, 98, 99>>
Str1p5 == <<49, 46, 53>>

Entries ==
    {Entry(Some(Str(Str1)), Some(Num(200))),
     Entry(Some(Num(2)), Some(Num(50))),
     Entry(Some(Str(Str9)), Some(Num(100))),
     Entry(Some(Str(Str3)), Some(Str(StrAbc))),
     Entry(Some(Str(Str1)), Nothing),
     Entry(Some(Str(<<49, 55>>)), Some(Str(Str1p5))),
     Entry(Some(Num(3)), Some(Num(0))),
     Entry(Some(Str(<<50>>)), Some(Num(0 - 200))),
     Entry(Nothing, Some(Num(100)))}

DayEntries ==
    {Entry(Some(Str(Str1)), Nothing),
     Entry(Some(Str(Str9)), Some(Num(100))),
     Entry(Nothing, Some(Num(100)))}

Catalogs ==
    {initialFoodDatabase,
     initialFoodDatabase \o <<Lentils>>,
     <<FoodWithoutId>> \o initialFoodDatabase,
     <<>>}

\* requested ids: absent, numbers and their texts, an id no food has
FoodIdArgs ==
    {Nothing, Some(Num(1)), Some(Str(Str1)), Some(Num(3)), Some(Str(Str3)),
     Some(Num(17)), Some(Str(<<49, 55>>)), Some(Str(Str9))}

MealItemsArgs == {Nothing} \cup {Some(l) : l \in SeqsUpTo(Entries, MaxItems)}

SlotValues == {Nothing} \cup {Some(l) : l \in SeqsUpTo(DayEntries, MaxSlotItems)}

MealsArgs ==
    {Nothing} \cup {Some(m) : m \in [breakfast : SlotValues, lunch : SlotValues,
                                     dinner : SlotValues, snacks : SlotValues]}

\* nutrition totals in tenths: multiples of one day's values, and the object
\* of the catch blocks
SampleTotals(k) ==
    [calories |-> 10000 * k, protein |-> 377 * k, carbs |-> 1375 * k, fat |-> 333 * k,
     fiber |-> 125 * k, sodium |-> 11500 * k, calcium |-> 5000 * k, iron |-> 91 * k,
     vitaminA |-> 4500 * k, vitaminC |-> 455 * k, cost |-> 35 * k]

NutritionArgs == {SampleTotals(k) : k \in 0..TotalsSamples} \cup {CatchTotals}

CalorieNeedsArgs == {Nothing, Some(0), Some(1500), Some(2000), Some(2751)}

----------------------------------------------------------------------------
(* The nutrient aggregator as a state machine *)

InitNutrition ==
    /\ \/ /\ input \in [kind : {"meal"}, mealItems : MealItemsArgs, foodDatabase : Catalogs]
                      \cup [kind : {"day"}, meals : MealsArgs, foodDatabase : Catalogs]
                      \cup [kind : {"percent"}, nutrition : NutritionArgs,
                            calorieNeeds : CalorieNeedsArgs]
          /\ localStorage = initialData
       \/ /\ input \in [kind : {"lookup"}, foodId : FoodIdArgs]
          /\ localStorage \in {[initialData EXCEPT !.foodDatabase = db] : db \in Catalogs}
    /\ call = NoCall
    /\ today = 0
    /\ timezone = 0
    /\ budgetTracker = InitialTracker(today)
    /\ ScriptsLoaded

CallCalculateMealNutrition ==
    /\ input.kind = "meal"
    /\ call' = [op |-> "calculateMealNutrition",
                result |-> calculateMealNutrition(input.mealItems, input.foodDatabase).totals,
                handled |-> calculateMealNutrition(input.mealItems, input.foodDatabase).handled]
    /\ UNCHANGED <<input, localStorage, today, timezone, budgetTracker>>
    /\ UNCHANGED pageVars

CallCalculateDailyNutrition ==
    /\ input.kind = "day"
    /\ call' = [op |-> "calculateDailyNutrition",
                result |-> calculateDailyNutrition(input.meals, input.foodDatabase).totals,
                handled |-> calculateDailyNutrition(input.meals, input.foodDatabase).handled]
    /\ UNCHANGED <<input, localStorage, today, timezone, budgetTracker>>
    /\ UNCHANGED pageVars

CallCalculateNutritionPercentages ==
    /\ input.kind = "percent"
    /\ call' = [op |-> "calculateNutritionPercentages",
                result |-> calculateNutritionPercentages(input.nutrition, input.calorieNeeds),
                handled |-> <<>>]
    /\ UNCHANGED <<input, localStorage, today, timezone, budgetTracker>>
    /\ UNCHANGED pageVars

CallGetFoodById ==
    /\ input.kind = "lookup"
    /\ call' = [op |-> "getFoodById", result |-> getFoodById(localStorage, input.foodId),
                handled |-> <<>>]
    /\ UNCHANGED <<input, localStorage, today, timezone, budgetTracker>>
    /\ UNCHANGED pageVars

NextNutrition ==
    \/ CallCalculateMealNutrition
    \/ CallCalculateDailyNutrition
    \/ CallCalculateNutritionPercentages
    \/ CallGetFoodById

SpecNutrition == InitNutrition /\ [][NextNutrition]_vars

----------------------------------------------------------------------------
(* Inputs of the report generator *)

\* 2024-02-02 at 03:00, 12:00 and 23:00 UTC
TodayArgs == {397 * 24 + h : h \in {3, 12, 23}}

Timezones == {0 - 5, 0, 2}

ReportTypes == {"daily", "weekly", "monthly", "yearly"}

\* ids as addFamilyMember makes them: Date.now().toString()
Member(id) == [id |-> id]
MemberSelectors == {"all", "1001", "1002"}
FamilyMembersArgs ==
    {Nothing, Some(<<Member("1001")>>), Some(<<Member("1001"), Member("1002")>>)}

\* anchors: now and the instants 5, 10, ... days before it, the instants six
\* days and six days less an hour before now, tomorrow, and the invalid Date
StartDateArgs(now) ==
    {Nothing} \cup {Some(now - 24 * 5 * k) : k \in 0..AnchorSamples}
              \cup {Some(now - 144), Some(now - 143), Some(now + 24)}

OatmealTwice == Entry(Some(Str(Str1)), Some(Num(200)))
OatmealDefault == Entry(Some(Str(Str1)), Nothing)
ChickenHalf == Entry(Some(Num(2)), Some(Num(50)))
BroccoliText == Entry(Some(Str(Str3)), Some(Str(StrAbc)))
UnknownFood == Entry(Some(Str(Str9)), Some(Num(100)))
NoFoodId == Entry(Nothing, Some(Num(100)))

StoredMealsSamples ==
    {<<>>,
     (MealKey(<<2024, 2, 2>>, "1001") :>
          Day(Some(<<OatmealTwice>>), Some(<<>>), Some(<<ChickenHalf, UnknownFood>>), Some(<<>>)))
     @@ (MealKey(<<2024, 2, 1>>, "1002") :>
          Day(Some(<<OatmealDefault>>), Some(<<>>), Nothing, Some(<<UnknownFood>>)))
     @@ (MealKey(<<2024, 2, 3>>, "1001") :>
          Day(Some(<<>>), Some(<<BroccoliText>>), Some(<<>>), Some(<<>>)))
     @@ (MealKey(<<2024, 1, 28>>, "1001") :>
          Day(Some(<<>>), Some(<<BroccoliText>>), Some(<<OatmealDefault>>), Some(<<>>))),
     (MealKey(<<2024, 2, 2>>, "1002") :>
          Day(Some(<<NoFoodId>>), Some(<<ChickenHalf>>), Some(<<>>), Some(<<>>)))
     @@ (MealKey(<<2024, 2, 2>>, "1001") :>
          Day(Some(<<OatmealDefault>>), Some(<<>>), Some(<<>>), Some(<<>>)))}

StoredPlansSamples ==
    {<<>>,
     (MealKey(<<2024, 2, 2>>, "1001") :>
          Day(Some(<<>>), Some(<<>>), Some(<<ChickenHalf>>), Some(<<>>)))
     @@ (MealKey(<<2024, 1, 30>>, "1002") :>
          Day(Some(<<OatmealTwice>>), Some(<<>>), Some(<<>>), Some(<<>>)))}

----------------------------------------------------------------------------
(* The report generator as a state machine *)

InitReport ==
    /\ today \in TodayArgs
    /\ timezone \in Timezones
    /\ localStorage \in {[initialData EXCEPT !.meals = ms, !.mealPlans = ps] :
                            ms \in StoredMealsSamples, ps \in StoredPlansSamples}
    /\ input \in [kind : {"report"}, reportType : ReportTypes,
                  familyMemberId : MemberSelectors,
                  startDate : StartDateArgs(today), familyMembers : FamilyMembersArgs]
    /\ call = NoCall
    /\ budgetTracker = InitialTracker(today)
    /\ ScriptsLoaded

ReportCall(r) ==
    [op |-> "generateNutritionReport", result |-> r.report, handled |-> r.handled]

CallGenerateNutritionReport ==
    /\ input.kind = "report"
    /\ call' = ReportCall(generateNutritionReport(input.reportType, input.familyMemberId,
                                                  input.startDate, input.familyMembers,
                                                  localStorage, today, timezone))
    /\ input' = ArgumentsAfterReport(input)
    /\ UNCHANGED <<localStorage, today, timezone, budgetTracker>>
    /\ UNCHANGED pageVars

NextReport == CallGenerateNutritionReport

SpecReport == InitReport /\ [][NextReport]_vars

----------------------------------------------------------------------------
(* Inputs of the budget tracker *)

MaxExpenses == 2

\* month selectors: last December, January, February and March 2024, and the
\* empty text of a cleared selector
MonthArgs ==
    {MonthString(<<2023, 12>>), MonthString(<<2024, 1>>), MonthString(<<2024, 2>>),
     MonthString(<<2024, 3>>), <<>>}

\* parseFloat of the budget input: $0, $30, $100, a negative amount, NaN
BudgetArgs == {Number(0), Number(300000), Number(1000000), Number(0 - 500000), NaN}

\* the date and the amount of the expense form: $12.50 in February, $40 on
\* the last day of January
ExpenseArgs ==
    {[date |-> DateString(<<2024, 2, 2>>), amount |-> Number(125000)],
     [date |-> DateString(<<2024, 1, 31>>), amount |-> Number(400000)]}

\* the clock and the timezone of a session: on 2024-02-02 UTC the local date
\* is February 1 at 03:00 in UTC-5, February 2 at noon in UTC, February 3 at
\* 23:00 in UTC+2
BudgetClocks == {<<397 * 24 + 3, 0 - 5>>, <<397 * 24 + 12, 0>>, <<397 * 24 + 23, 2>>}

\* consumed meals on the first and the last day of February 2024 and on the
\* days before and after the month
BoundaryMeals ==
    (MealKey(<<2024, 2, 1>>, "1001") :>
         Day(Some(<<OatmealTwice>>), Some(<<>>), Some(<<ChickenHalf, UnknownFood>>), Some(<<>>)))
    @@ (MealKey(<<2024, 2, 29>>, "1002") :>
         Day(Some(<<OatmealDefault>>), Some(<<>>), Nothing, Some(<<BroccoliText>>)))
    @@ (MealKey(<<2024, 1, 31>>, "1001") :>
         Day(Some(<<ChickenHalf>>), Some(<<>>), Some(<<>>), Some(<<>>)))
    @@ (MealKey(<<2024, 3, 1>>, "1002") :>
         Day(Some(<<>>), Some(<<OatmealTwice>>), Some(<<>>), Some(<<>>)))

\* planned meals inside February 2024
BoundaryPlans ==
    (MealKey(<<2024, 2, 1>>, "1001") :>
         Day(Some(<<>>), Some(<<>>), Some(<<ChickenHalf>>), Some(<<>>)))
    @@ (MealKey(<<2024, 2, 10>>, "1002") :>
         Day(Some(<<OatmealTwice>>), Some(<<>>), Some(<<>>), Some(<<>>)))

\* stores of earlier sessions: untouched, with meals and plans, with a saved
\* budget of $100 and an expense, and the stores of the report samples
BudgetStores ==
    {[initialData EXCEPT !.meals = BoundaryMeals, !.mealPlans = BoundaryPlans],
     [initialData EXCEPT !.meals = BoundaryMeals,
                         !.budget.monthly = Number(1000000),
                         !.expenses = <<Expense(<<49>>, DateString(<<2024, 2, 1>>),
                                                Number(250000))>>]}
    \cup {[initialData EXCEPT !.meals = ms] : ms \in StoredMealsSamples}

----------------------------------------------------------------------------
(* The budget tracker as a state machine *)

InitBudget ==
    /\ \E clock \in BudgetClocks : today = clock[1] /\ timezone = clock[2]
    /\ localStorage \in BudgetStores
    /\ budgetTracker = InitialTracker(today)
    /\ ScriptsLoaded
    /\ input = [kind |-> "budget"]
    /\ call = NoCall

SummaryCall(r) == [op |-> "updateBudgetSummary", result |-> r.result, handled |-> r.handled]

\* BudgetTracker.loadBudgetData()
LoadBudgetData ==
    /\ budgetTracker' = [budgetTracker EXCEPT !.monthlyBudget = getBudget(localStorage).monthly,
                                              !.expenses = getExpenses(localStorage)]
    /\ UNCHANGED <<input, call, localStorage, today, timezone>>
    /\ UNCHANGED pageVars

\* BudgetTracker.updateBudget(amount): monthlyBudget is set, DataStore.updateBudget
\* saves the amount as JSON, and the summary is redrawn
UpdateBudget ==
    \E amount \in BudgetArgs :
        /\ budgetTracker' = [budgetTracker EXCEPT !.monthlyBudget = amount]
        /\ localStorage' = [localStorage EXCEPT !.budget.monthly = JsonNumber(amount)]
        /\ call' = SummaryCall(updateBudgetSummary(budgetTracker', localStorage', today, timezone))
        /\ UNCHANGED <<input, today, timezone>>
        /\ UNCHANGED pageVars

\* the change listener of the month selector
ChangeMonth ==
    \E month \in MonthArgs :
        /\ budgetTracker' = [budgetTracker EXCEPT !.currentMonth = month]
        /\ call' = SummaryCall(updateBudgetSummary(budgetTracker', localStorage, today, timezone))
        /\ UNCHANGED <<input, localStorage, today, timezone>>
        /\ UNCHANGED pageVars

\* the submit listener of the expense form: DataStore.addExpense appends and
\* saves, expenses is read back, and the summary is redrawn
AddExpense ==
    \E e \in ExpenseArgs :
        /\ Len(getExpenses(localStorage)) < MaxExpenses
        /\ localStorage' = [localStorage EXCEPT !.expenses =
                               Append(@, Expense(ClockId(today), e.date, JsonNumber(e.amount)))]
        /\ budgetTracker' = [budgetTracker EXCEPT !.expenses = getExpenses(localStorage')]
        /\ call' = SummaryCall(updateBudgetSummary(budgetTracker', localStorage', today, timezone))
        /\ UNCHANGED <<input, today, timezone>>
        /\ UNCHANGED pageVars

\* BudgetTracker.updateBudgetSummary()
UpdateBudgetSummary ==
    /\ call' = SummaryCall(updateBudgetSummary(budgetTracker, localStorage, today, timezone))
    /\ UNCHANGED <<input, localStorage, today, timezone, budgetTracker>>
    /\ UNCHANGED pageVars

NextBudget ==
    \/ UpdateBudgetSummary
    \/ LoadBudgetData
    \/ UpdateBudget
    \/ ChangeMonth
    \/ AddExpense

SpecBudget == InitBudget /\ [][NextBudget]_vars

----------------------------------------------------------------------------
(* Inputs of the meal tracker *)

\* the entries a displayed day may hold before another one is added or
\* converted, and the days a session may start to store
MaxMeals == 1

\* the people of the session, the dates the day buttons lead to, the slot
\* meals are added to and the slots whose entries are edited
TrackerMembers == {"1001", "1002"}
TrackerDates == {<<2024, 2, 2>>, <<2024, 2, 3>>}
AddMealTypeArgs == {"dinner"}
MealTypeArgs == {"breakfast", "dinner"}

\* the values of the add-meal form: food '1', servings '2', a note; and of the
\* edit-meal form: food '2', the servings field left empty, no note
AddFormArgs == {[foodId |-> Str1, servings |-> <<50>>, notes |-> "late"]}
EditFormArgs == {[foodId |-> <<50>>, servings |-> <<>>, notes |-> ""]}

\* the session's clock: 2024-02-02 12:00 UTC
TrackerToday == 397 * 24 + 12

\* stores of earlier sessions with the members '1001' and '1002': without
\* meals, and with a consumed and a planned
\* entry of member '1001' on 2024-02-02 and a consumed entry of member '1002'
\* on 2024-02-03
TrackerFamily ==
    [initialData EXCEPT
        !.familyMembers = <<[id |-> "1001", name |-> "Selman", details |-> Some("male")],
                            [id |-> "1002", name |-> "Aybike", details |-> Some("female")]>>,
        !.selectedFamilyMemberId = Some("1001")]

TrackerStores ==
    {TrackerFamily,
     [TrackerFamily EXCEPT
         !.meals =
             (MealKey(<<2024, 2, 2>>, "1001") :>
                  Day(Some(<<MealItem(Str1, <<50>>, "", "consumed")>>), Some(<<>>),
                      Some(<<>>), Some(<<>>)))
             @@ (MealKey(<<2024, 2, 3>>, "1002") :>
                  Day(Some(<<>>), Some(<<>>),
                      Some(<<MealItem(Str3, <<>>, "", "consumed")>>), Some(<<>>))),
         !.mealPlans =
             MealKey(<<2024, 2, 2>>, "1001") :>
                  Day(Some(<<>>), Some(<<>>),
                      Some(<<MealItem(<<50>>, <<>>, "grill", "planned")>>),
                      Some(<<>>))]}

\* the entries of a slot; a slot that is missing or not an array has none
SlotEntries(slot) == IF slot = Nothing THEN <<>> ELSE Val(slot)

\* the number of entries of a day's meal set and of the stored sets of a kind
EntryCount(day) ==
    Len(SlotEntries(day.breakfast)) + Len(SlotEntries(day.lunch))
        + Len(SlotEntries(day.dinner)) + Len(SlotEntries(day.snacks))

\* the (date, person) keys under which a set of either kind is stored
StoredKeys(store) == DOMAIN store.meals \cup DOMAIN store.mealPlans

RECURSIVE StoredCount(_, _)
StoredCount(days, keys) ==
    IF keys = {} THEN 0
    ELSE EntryCount(days[CHOOSE key \in keys : TRUE])
            + StoredCount(days, keys \ {CHOOSE key \in keys : TRUE})

----------------------------------------------------------------------------
(* The meal tracker as a state machine.  The session starts after            *)
(* App.initialize selected member '1001'; a write to localStorage succeeds   *)
(* or throws.                                                                 *)

InitMeals ==
    /\ today = TrackerToday
    /\ timezone = 0
    /\ localStorage \in TrackerStores
    /\ budgetTracker = InitialTracker(today)
    /\ familyMemberSelect = PopulatedSelect(getFamilyMembers(localStorage))
    /\ mealTracker = InitializedMealTracker(today, localStorage,
                                            getCurrentFamilyMemberId(localStorage,
                                                                     familyMemberSelect))
    /\ errorBanner = HiddenBanner
    /\ dateNow = 0
    /\ input = [kind |-> "meals"]
    /\ call = NoCall

\* what ErrorHandler was handed by the last operation of the tracker
TrackerCall(handled) == [op |-> "MealTracker", handled |-> handled]

\* the change listener of the 'family-member' dropdown
ChangeFamilyMember ==
    \E id \in TrackerMembers :
        /\ mealTracker' = changeFamilyMember(mealTracker, localStorage, id)
        /\ familyMemberSelect' = [familyMemberSelect EXCEPT !.value = Some(id)]
        /\ call' = TrackerCall(<<>>)
        /\ UNCHANGED <<input, localStorage, today, timezone, budgetTracker, errorBanner, dateNow>>

\* the click listeners of 'prev-day' and 'next-day'
ChangeDate ==
    \E days \in {0 - 1, 1} :
        /\ shiftDate(mealTracker, localStorage, days).currentDate \in TrackerDates
        /\ mealTracker' = shiftDate(mealTracker, localStorage, days)
        /\ call' = TrackerCall(<<>>)
        /\ UNCHANGED <<input, localStorage, today, timezone, budgetTracker,
                       familyMemberSelect, errorBanner, dateNow>>

\* the click listeners of 'consumed-mode' and 'planned-mode'
ChangeViewMode ==
    \E mode \in {"consumed", "planned"} :
        /\ mealTracker' = [mealTracker EXCEPT !.viewMode = mode]
        /\ call' = TrackerCall(<<>>)
        /\ UNCHANGED <<input, localStorage, today, timezone, budgetTracker,
                       familyMemberSelect, errorBanner, dateNow>>

\* MealTracker.loadMeals()
LoadMeals ==
    /\ mealTracker' = loadMeals(mealTracker, localStorage)
    /\ call' = TrackerCall(<<>>)
    /\ UNCHANGED <<input, localStorage, today, timezone, budgetTracker,
                   familyMemberSelect, errorBanner, dateNow>>

\* the tracker and the storage after an operation that may write
MealStep(r) ==
    /\ mealTracker' = r.tracker
    /\ localStorage' = r.store
    /\ call' = TrackerCall(r.handled)
    /\ UNCHANGED <<input, today, timezone, budgetTracker, familyMemberSelect,
                   errorBanner, dateNow>>

\* the submit listener of the add-meal form with the given values and the
\* outcome ok of the write
AddMealOf(mealType, form, status, ok) ==
    /\ \/ MealKey(mealTracker.currentDate, Val(mealTracker.currentFamilyMemberId))
              \in StoredKeys(localStorage)
       \/ Cardinality(StoredKeys(localStorage)) < MaxMeals
    /\ EntryCount(mealTracker.meals) + EntryCount(mealTracker.mealPlans) < MaxMeals
    /\ StoredCount(localStorage.meals, DOMAIN localStorage.meals)
          + StoredCount(localStorage.mealPlans, DOMAIN localStorage.mealPlans)
          < MaxMeals
    /\ MealStep(addMeal(mealTracker, localStorage, mealType, form.foodId,
                        form.servings, form.notes, status, ok))

AddMeal ==
    \E mealType \in AddMealTypeArgs, form \in AddFormArgs, status \in {"consumed", "planned"},
       ok \in BOOLEAN :
        AddMealOf(mealType, form, status, ok)

\* the submit listener of the edit-meal form
UpdateMealOf(mealType, index, form, ok) ==
    MealStep(updateMeal(mealTracker, localStorage, mealType, index, form.foodId,
                        form.servings, form.notes, ok))

UpdateMeal ==
    \E mealType \in MealTypeArgs, index \in 1..MaxMeals, form \in EditFormArgs, ok \in BOOLEAN :
        UpdateMealOf(mealType, index, form, ok)

\* the click listener of a 'delete-meal' button
DeleteMealOf(mealType, index, ok) ==
    MealStep(deleteMeal(mealTracker, localStorage, mealType, index, ok))

DeleteMeal ==
    \E mealType \in MealTypeArgs, index \in 1..MaxMeals, ok \in BOOLEAN :
        DeleteMealOf(mealType, index, ok)

\* the click listener of a 'consume-meal' button
ConsumePlannedMealOf(mealType, index, ok1, ok2) ==
    /\ EntryCount(getMeals(localStorage, mealTracker.currentDate,
                           Val(mealTracker.currentFamilyMemberId))) <= MaxMeals
    /\ MealStep(consumePlannedMeal(mealTracker, localStorage, mealType, index, ok1, ok2))

ConsumePlannedMeal ==
    \E mealType \in MealTypeArgs, index \in 1..MaxMeals, ok1 \in BOOLEAN, ok2 \in BOOLEAN :
        ConsumePlannedMealOf(mealType, index, ok1, ok2)

NextMeals ==
    \/ LoadMeals
    \/ AddMeal
    \/ UpdateMeal
    \/ DeleteMeal
    \/ ConsumePlannedMeal
    \/ ChangeFamilyMember
    \/ ChangeDate
    \/ ChangeViewMode

SpecMeals == InitMeals /\ [][NextMeals]_vars

----------------------------------------------------------------------------
(* The error banner as a state machine.  dateNow is the clock in             *)
(* milliseconds; a timer callback runs when its delay has passed, and the    *)
(* clock does not move on while a callback is due.                            *)

MaxErrors == 3
ClockSteps == 4
ClockStep == AutoHideDelay \div 2
ErrorCodeArgs ==
    {ERROR_CODES.DATA_STORAGE_ERROR, ERROR_CODES.MEAL_ADD_ERROR, ERROR_CODES.UNKNOWN_ERROR}

InitErrors ==
    /\ today = TrackerToday
    /\ timezone = 0
    /\ localStorage = initialData
    /\ budgetTracker = InitialTracker(today)
    /\ ScriptsLoaded
    /\ input = [kind |-> "errors"]
    /\ call = NoCall

\* ErrorHandler.handleError(code, ...) called by some module
HandleError ==
    \E code \in ErrorCodeArgs :
        /\ errorBanner.handled < MaxErrors
        /\ errorBanner' = handleError(errorBanner, code, dateNow)
        /\ UNCHANGED <<input, call, localStorage, today, timezone, budgetTracker,
                       mealTracker, familyMemberSelect, dateNow>>

\* the callback of the given pending timer runs
FireTimerOf(timer) ==
    /\ timer.due <= dateNow
    /\ errorBanner' = timerFired(errorBanner, timer)
    /\ UNCHANGED <<input, call, localStorage, today, timezone, budgetTracker,
                   mealTracker, familyMemberSelect, dateNow>>

FireTimer == \E timer \in errorBanner.timers : FireTimerOf(timer)

\* the user clicks 'close-error' on the visible banner
CloseError ==
    /\ ~errorBanner.hidden
    /\ errorBanner' = closeError(errorBanner)
    /\ UNCHANGED <<input, call, localStorage, today, timezone, budgetTracker,
                   mealTracker, familyMemberSelect, dateNow>>

\* time passes
TimePasses ==
    /\ dateNow < ClockSteps * ClockStep
    /\ \A timer \in errorBanner.timers : timer.due > dateNow
    /\ dateNow' = dateNow + ClockStep
    /\ UNCHANGED <<input, call, localStorage, today, timezone, budgetTracker,
                   mealTracker, familyMemberSelect, errorBanner>>

NextErrors ==
    \/ HandleError
    \/ FireTimer
    \/ CloseError
    \/ TimePasses

SpecErrors == InitErrors /\ [][NextErrors]_vars

----------------------------------------------------------------------------
(* The page with its family members as a state machine: the scripts are      *)
(* loaded, App.initialize runs on DOMContentLoaded, and afterwards the user  *)
(* selects members, adds members, and records are added to the storage.      *)
(* dateNow is the clock in milliseconds; consecutive calls may read the same *)
(* millisecond.                                                               *)

MaxRecords == 1
MaxClock == 2

\* the clock readings of the three seeding calls, relative to the first
SeedTicks == {<<0, 0, 0>>, <<0, 0, 1>>, <<0, 1, 1>>}

NewMemberArgs == {[name |-> "Deniz", details |-> "male"]}
NewExpenseArgs == {[date |-> DateString(<<2024, 2, 1>>), amount |-> Number(250000)]}
NewFoodArgs == {FoodWithoutId, Lentils}

InitFamily ==
    /\ today = TrackerToday
    /\ timezone = 0
    /\ localStorage = initialData
    /\ budgetTracker = InitialTracker(today)
    /\ ScriptsLoaded
    /\ input = [kind |-> "family"]
    /\ call = NoCall

AppCall(name) == [op |-> "App", name |-> name]

\* the storage after setupFamilyMembers: seeded when empty, and the id of the
\* dropdown's first option stored
StoreAfterSetup(store, t, ticks, ok) ==
    WithSelectedId(SeededStore(store, t, ticks, ok),
                   PopulatedSelect(getFamilyMembers(SeededStore(store, t, ticks, ok))), ok)

\* App.initialize() on DOMContentLoaded of a loaded or reloaded page
Initialize ==
    \E ticks \in SeedTicks, ok \in BOOLEAN :
        /\ dateNow + ticks[Len(ticks)] <= MaxClock
        /\ localStorage' = StoreAfterSetup(localStorage, dateNow, ticks, ok)
        /\ familyMemberSelect' = PopulatedSelect(getFamilyMembers(localStorage'))
        /\ mealTracker' =
               InitializedMealTracker(today, localStorage',
                   getCurrentFamilyMemberId(localStorage', familyMemberSelect'))
        /\ dateNow' = IF Len(getFamilyMembers(localStorage)) = 0
                      THEN dateNow + ticks[Len(ticks)] ELSE dateNow
        /\ call' = AppCall("initialize")
        /\ UNCHANGED <<input, today, timezone, budgetTracker, errorBanner>>

\* the change listener of the 'family-member' dropdown: the user picks the
\* option at position i
SelectFamilyMember ==
    \E i \in 1..Len(familyMemberSelect.options) :
        /\ call # NoCall
        /\ familyMemberSelect' = [familyMemberSelect EXCEPT !.value = Some(familyMemberSelect.options[i])]
        /\ mealTracker' = changeFamilyMember(mealTracker, localStorage,
                                             familyMemberSelect.options[i])
        /\ call' = AppCall("change")
        /\ UNCHANGED <<input, localStorage, today, timezone, budgetTracker, errorBanner,
                       dateNow>>

\* App.addFamilyMember(...) on the submit of the add-family-member form: the
\* dropdown is filled again when the member was stored
SubmitAddFamilyMember ==
    \E member \in NewMemberArgs, ok \in BOOLEAN :
        /\ call # NoCall
        /\ Len(getFamilyMembers(localStorage)) < Len(DEFAULT_FAMILY_MEMBERS) + MaxRecords
        /\ familyMemberSelect' =
               IF ok
               THEN PopulatedSelect(getFamilyMembers(
                        AddMemberWithDetails(localStorage, dateNow, member.name,
                                             member.details, ok)))
               ELSE familyMemberSelect
        /\ localStorage' =
               WithSelectedId(AddMemberWithDetails(localStorage, dateNow, member.name,
                                                   member.details, ok),
                              familyMemberSelect', ok)
        /\ call' = AppCall("addFamilyMember")
        /\ UNCHANGED <<input, today, timezone, budgetTracker, mealTracker, errorBanner,
                       dateNow>>

\* DataStore.addExpense(date, description, amount)
AddStoredExpense ==
    \E expense \in NewExpenseArgs, ok \in BOOLEAN :
        /\ call # NoCall
        /\ Len(localStorage.expenses) < MaxRecords + 1
        /\ localStorage' = addExpense(localStorage, dateNow, expense.date, expense.amount, ok)
        /\ call' = AppCall("addExpense")
        /\ UNCHANGED <<input, today, timezone, budgetTracker, mealTracker,
                       familyMemberSelect, errorBanner, dateNow>>

\* DataStore.addFoodToDatabase(food)
AddFoodToDatabase ==
    \E food \in NewFoodArgs, ok \in BOOLEAN :
        /\ call # NoCall
        /\ Len(localStorage.foodDatabase) < Len(initialData.foodDatabase) + MaxRecords + 1
        /\ localStorage' = addFoodToDatabase(localStorage, dateNow, food, ok)
        /\ call' = AppCall("addFoodToDatabase")
        /\ UNCHANGED <<input, today, timezone, budgetTracker, mealTracker,
                       familyMemberSelect, errorBanner, dateNow>>

\* a millisecond passes
Tick ==
    /\ dateNow < MaxClock
    /\ dateNow' = dateNow + 1
    /\ UNCHANGED <<input, call, localStorage, today, timezone, budgetTracker,
                   mealTracker, familyMemberSelect, errorBanner>>

NextFamily ==
    \/ Initialize
    \/ SelectFamilyMember
    \/ SubmitAddFamilyMember
    \/ AddStoredExpense
    \/ AddFoodToDatabase
    \/ Tick

SpecFamily == InitFamily /\ [][NextFamily]_vars

----------------------------------------------------------------------------
(* Claims about the energy model *)

\* the person of the worked example: male, 75 kg, 180 cm, 32 years, MODERATE
IsExamplePerson(p) ==
    /\ p.gender = Some(StrMale)
    /\ p.weight = Some(75) /\ p.weightUnit \in {Nothing, Some("kg")}
    /\ p.height = Some(180) /\ p.heightUnit \in {Nothing, Some("cm")}
    /\ p.age = Some(32)
    /\ p.activityLevel = Some("MODERATE")

InputIsExamplePerson ==
    input.kind = "person" /\ Has(input.person) /\ IsExamplePerson(Val(input.person))

\* C1 as stated: for the example person calculateBMR returns 1780 and
\* calculateDailyCalorieNeeds returns 2759.
C1_AsStated ==
    InputIsExamplePerson =>
        /\ call.op = "calculateBMR" => call.result = 1780
        /\ call.op = "calculateDailyCalorieNeeds" => call.result = 2759

\* C1 amended: for the example person calculateBMR returns 1775 (the formula
\* gives 1775.293) and calculateDailyCalorieNeeds returns 2751 = round(1775 * 1.55).
C1_ExampleValues ==
    InputIsExamplePerson =>
        /\ call.op = "calculateBMR" => call.result = 1775
        /\ call.op = "calculateDailyCalorieNeeds" => call.bmr = 1775 /\ call.result = 2751

C1_Witness ==
    /\ InputIsExamplePerson
    /\ call.op = "calculateDailyCalorieNeeds"
    /\ call.bmr = 1775
    /\ call.result = 2751

\* the claim's failure case: the person is absent, or one of gender, weight,
\* height, age is absent
AnyRequiredAbsent(person) ==
    \/ person = Nothing
    \/ \E f \in {"gender", "weight", "height", "age"} : Val(person)[f] = Nothing

\* C2: calculateDailyCalorieNeeds returns the default 2000 whenever gender,
\* weight, height or age is absent or the person itself is absent.
C2_DefaultOnMissingData ==
    (/\ call.op = "calculateDailyCalorieNeeds"
     /\ input.kind = "person"
     /\ AnyRequiredAbsent(input.person)) => call.result = 2000

\* the Harris-Benedict value the claim describes, as whole thousandths m and a
\* remainder r in units of 10^-9
IsMaleIgnoringCase(g) ==
    Len(g) = 4 /\ \A i \in 1..4 : g[i] = StrMale[i] \/ g[i] = StrMale[i] - 32

ClaimedWeight(p) ==
    IF p.weightUnit = Some("lb") THEN Val(p.weight) * 453592 ELSE Val(p.weight) * 1000000

ClaimedHeight(p) ==
    IF p.heightUnit = Some("in") THEN Val(p.height) * 2540000 ELSE Val(p.height) * 1000000

ClaimedBmr(p) ==
    LET male == IsMaleIgnoringCase(Val(p.gender))
        tw == MulMilliMicro(IF male THEN 13397 ELSE 9247, ClaimedWeight(p))
        th == MulMilliMicro(IF male THEN 4799 ELSE 3098, ClaimedHeight(p))
        rr == tw.r + th.r
    IN  [m |-> (IF male THEN 88362 ELSE 447593) + tw.m + th.m
                 - (IF male THEN 5677 ELSE 4330) * Val(p.age) + (rr \div 1000000),
         r |-> rr % 1000000]

\* n is a nearest integer to the value v: |n - v| <= 1/2
NearestInteger(n, v) ==
    /\ 1000 * n - v.m <= 500
    /\ v.m - 1000 * n <= (IF v.r = 0 THEN 500 ELSE 499)

AllRequiredPresent(person) ==
    /\ Has(person)
    /\ \A f \in {"gender", "weight", "height", "age"} : Has(Val(person)[f])

\* C3: for every person with gender, weight, height and age present,
\* calculateBMR returns the nearest integer to the Harris-Benedict value, with
\* lb and in converted, the male coefficients exactly when gender is 'male'
\* ignoring case and the other coefficients otherwise.
C3_BmrIsHarrisBenedict ==
    (/\ call.op = "calculateBMR"
     /\ input.kind = "person"
     /\ AllRequiredPresent(input.person))
        => NearestInteger(call.result, ClaimedBmr(Val(input.person)))

C3_Witness ==
    /\ call.op = "calculateBMR"
    /\ input.kind = "person"
    /\ Has(input.person)
    /\ Val(input.person).gender = Some(StrMALE)
    /\ Val(input.person).weight = Some(165)
    /\ Val(input.person).weightUnit = Some("lb")
    /\ Val(input.person).height = Some(70)
    /\ Val(input.person).heightUnit = Some("in")
    /\ Val(input.person).age = Some(32)
    /\ call.result = 1763

\* the activity factor the claim gives, in thousandths
ClaimedFactor(level) ==
    CASE level = Some("SEDENTARY") -> 1200
      [] level = Some("LIGHT") -> 1375
      [] level = Some("MODERATE") -> 1550
      [] level = Some("ACTIVE") -> 1725
      [] level = Some("VERY_ACTIVE") -> 1900
      [] OTHER -> 1550

----------------------------------------------------------------------------
(* Claims about the nutrient aggregator *)

\* a list of meal entries that all carry a foodId, and a catalog whose items
\* all carry an id
WellFormedMealInput ==
    /\ input.kind = "meal"
    /\ Has(input.mealItems)
    /\ \A i \in DOMAIN Val(input.mealItems) : Has(Val(input.mealItems)[i].foodId)
    /\ \A j \in DOMAIN input.foodDatabase : Has(input.foodDatabase[j].id)

\* the catalog positions whose id equals the entry's foodId as text
MatchingFoods(e, db) ==
    {j \in DOMAIN db : IdToString(Val(db[j].id)) = IdToString(Val(e.foodId))}

InCatalog(e) == MatchingFoods(e, input.foodDatabase) # {}

\* C5: calculateMealNutrition gives the same totals for a list as for the list
\* with all entries that match no catalog item removed, and raises no error.
C5_UnmatchedEntriesSkipped ==
    (call.op = "calculateMealNutrition" /\ WellFormedMealInput) =>
        /\ call.handled = <<>>
        /\ call.result =
             calculateMealNutrition(Some(SelectSeq(Val(input.mealItems), InCatalog)),
                                    input.foodDatabase).totals

C5_Witness ==
    /\ call.op = "calculateMealNutrition"
    /\ input.kind = "meal"
    /\ input.foodDatabase = initialFoodDatabase
    /\ input.mealItems = Some(<<Entry(Some(Str(Str1)), Some(Num(200))),
                                Entry(Some(Str(Str9)), Some(Num(100))),
                                Entry(Some(Num(2)), Some(Num(50)))>>)
    /\ call.result.calories = 3825
    /\ call.result.cost = 13

\* the servings an entry counts with: the number read from the stored value,
\* 1 when the value is absent, not a number or zero; in hundredths
ResolvedServings(e) ==
    LET p == parseFloat(e.servings)
    IN  IF p = Nothing \/ Val(p) = 0 THEN 100 ELSE Val(p)

\* the value of a food's field, an absent optional field counting as 0
FieldValue(food, f) ==
    IF f \in MacroFields THEN food[f]
    ELSE LET v == food[IF f = "cost" THEN "costPerServing" ELSE f]
         IN  IF v = Nothing THEN 0 ELSE Val(v)

\* the exact sum of (food field * resolved servings) over the first n entries,
\* in units of 10^-4
RECURSIVE ExactSum(_, _, _, _)
ExactSum(items, db, f, n) ==
    IF n = 0 THEN 0
    ELSE LET food == db[CHOOSE j \in MatchingFoods(items[n], db) : TRUE]
         IN  ExactSum(items, db, f, n - 1) + FieldValue(food, f) * ResolvedServings(items[n])

\* C6: when every entry's food is in the catalog, each field of the result is
\* the exact sum of (food field * resolved servings) rounded once to one
\* decimal; one entry with servings 2 of a food with calories 150 gives 300.0.
C6_ExactSumRoundedOnce ==
    (/\ call.op = "calculateMealNutrition"
     /\ WellFormedMealInput
     /\ \A i \in DOMAIN Val(input.mealItems) : InCatalog(Val(input.mealItems)[i]))
        => \A f \in AllFields :
              /\ f \in DOMAIN call.result
              /\ LET exact == ExactSum(Val(input.mealItems), input.foodDatabase, f,
                                       Len(Val(input.mealItems)))
                 IN  /\ 1000 * call.result[f] - exact <= 500
                     /\ exact - 1000 * call.result[f] <= 500

C6_Witness ==
    /\ call.op = "calculateMealNutrition"
    /\ input.kind = "meal"
    /\ input.foodDatabase = initialFoodDatabase
    /\ input.mealItems = Some(<<Entry(Some(Str(Str1)), Some(Num(200)))>>)
    /\ call.result.calories = 3000
    /\ call.result.cost = 7

\* C7: the servings multiplier that aggregation applies is positive (absent,
\* non-numeric, zero or negative values are resolved to 1), so with a catalog
\* of non-negative fields every totals value is non-negative.
C7_TotalsNonNegative ==
    (call.op = "calculateMealNutrition" /\ input.kind = "meal") =>
        \A f \in DOMAIN call.result : call.result[f] >= 0

\* C8: calculateMealNutrition and calculateDailyNutrition always return every
\* nutrient field and cost; after an internal failure all of them are present
\* and 0.
C8_AllFieldsAlwaysPresent ==
    call.op \in {"calculateMealNutrition", "calculateDailyNutrition"} =>
        DOMAIN call.result = AllFields

\* the ratio whose rounding the claim gives for field f of totals n (tenths)
\* and calorie target k
ClaimedRatio(f, n, k) ==
    CASE f = "calories" -> [p |-> 100 * n, q |-> 10 * k]
      [] f = "protein" -> [p |-> 100 * n * 4 * 100, q |-> 10 * k * 15]
      [] f = "carbs" -> [p |-> 100 * n * 4 * 100, q |-> 10 * k * 55]
      [] f = "fat" -> [p |-> 100 * n * 9 * 100, q |-> 10 * k * 30]
      [] f = "fiber" -> [p |-> 100 * n, q |-> 10 * 25]
      [] f = "sodium" -> [p |-> 100 * n, q |-> 10 * 2300]
      [] f = "calcium" -> [p |-> 100 * n, q |-> 10 * 1000]
      [] f = "iron" -> [p |-> 100 * n, q |-> 10 * 18]
      [] f = "vitaminA" -> [p |-> 100 * n, q |-> 10 * 900]
      [] f = "vitaminC" -> [p |-> 100 * n, q |-> 10 * 90]

\* r is a nearest integer to p / q, for q > 0
NearestToRatio(r, p, q) ==
    /\ 2 * (r * q - p) <= q
    /\ 2 * (p - r * q) <= q

\* C9: calculateNutritionPercentages returns for each field the integer
\* rounding of 100 * value / reference (calorie target, macro grams derived
\* from it, fixed daily values); a target of 0 or undefined gives exactly the
\* result of target 2000, and calories 2000 against target 2000 gives 100.
C9_PercentagesOfTarget ==
    (/\ call.op = "calculateNutritionPercentages"
     /\ input.kind = "percent"
     /\ DOMAIN input.nutrition = AllFields)
        => LET k == IF input.calorieNeeds \in {Nothing, Some(0)}
                    THEN 2000 ELSE Val(input.calorieNeeds)
           IN  /\ \A f \in PercentFields :
                     /\ Has(call.result[f])
                     /\ LET ratio == ClaimedRatio(f, input.nutrition[f], k)
                        IN  NearestToRatio(Val(call.result[f]), ratio.p, ratio.q)
               /\ input.calorieNeeds \in {Nothing, Some(0)} =>
                     call.result = calculateNutritionPercentages(input.nutrition, Some(2000))
               /\ (input.nutrition.calories = 20000 /\ k = 2000) =>
                     call.result.calories = Some(100)

C9_Witness ==
    /\ call.op = "calculateNutritionPercentages"
    /\ input.kind = "percent"
    /\ input.nutrition = SampleTotals(2)
    /\ input.calorieNeeds = Some(0)
    /\ call.result.calories = Some(100)
    /\ call.result.protein = Some(101)

----------------------------------------------------------------------------
(* Claims about the report generator *)

\* the members a report covers
CoveredMemberIds ==
    IF input.familyMemberId = "all"
    THEN {Val(input.familyMembers)[i].id : i \in DOMAIN Val(input.familyMembers)}
    ELSE {input.familyMemberId}

\* the daily nutrition value of a metric for one member's stored consumed or
\* planned meals of a date
MetricOfMember(label, id, metric, kind) ==
    calculateDailyNutrition(
        Some(IF kind = "consumed" THEN getMeals(localStorage, label, id)
                                  ELSE getMealPlans(localStorage, label, id)),
        getFoodDatabase(localStorage)).totals[metric]

\* the value of a metric for a date label, summed over a set of members
RECURSIVE MetricOfDate(_, _, _, _)
MetricOfDate(ids, label, metric, kind) ==
    IF ids = {} THEN 0
    ELSE LET id == CHOOSE x \in ids : TRUE
         IN  MetricOfMember(label, id, metric, kind)
                + MetricOfDate(ids \ {id}, label, metric, kind)

\* C10: in every Report returned by generateNutritionReport, the planned and
\* consumed arrays of each of the five metrics have the length of labels, and
\* index i of each array describes the date labels[i].
C10_ArraysAlignedWithLabels ==
    (call.op = "generateNutritionReport" /\ input.kind = "report") =>
        \A m \in Metrics : \A kind \in {"planned", "consumed"} :
            /\ Len(call.result.datasets[m][kind]) = Len(call.result.labels)
            /\ \A i \in 1..Len(call.result.labels) :
                  i <= Len(call.result.datasets[m][kind]) =>
                     call.result.datasets[m][kind][i]
                        = MetricOfDate(CoveredMemberIds, call.result.labels[i], m, kind)

C10_Witness ==
    /\ call.op = "generateNutritionReport"
    /\ input.kind = "report"
    /\ input.reportType = "weekly"
    /\ input.familyMemberId = "all"
    /\ Len(call.result.labels) = 6
    /\ call.result.labels[6] = <<2024, 2, 2>>
    /\ call.result.datasets.calories.consumed[6] = 3825
    /\ call.result.datasets.cost.planned[6] = 6

ReportReturned == call.op = "generateNutritionReport" /\ input.kind = "report"

\* the report generateNutritionReport('daily', person.id, D, [person]) returns
\* for the anchor date, the store and the clock of the current state
SoloReport(person) ==
    generateNutritionReport("daily", person.id, input.startDate, Some(<<person>>),
                            localStorage, today, timezone).report

\* the sum over people[k..] of the value at index i of a metric array
RECURSIVE SumOfSolo(_, _, _, _, _)
SumOfSolo(people, k, m, kind, i) ==
    IF k > Len(people) THEN 0
    ELSE SoloReport(people[k]).datasets[m][kind][i] + SumOfSolo(people, k + 1, m, kind, i)

\* C11: every planned and consumed value of every metric in the report
\* generateNutritionReport('daily', 'all', D, people) is the sum over the people
\* of the corresponding value of generateNutritionReport('daily', person.id, D,
\* [person]).
C11_AllIsSumOfMembers ==
    (/\ ReportReturned
     /\ input.reportType = "daily"
     /\ input.familyMemberId = "all"
     /\ input.familyMembers # Nothing) =>
        \A m \in Metrics : \A kind \in {"planned", "consumed"} :
            \A i \in 1..Len(call.result.datasets[m][kind]) :
                call.result.datasets[m][kind][i]
                    = SumOfSolo(Val(input.familyMembers), 1, m, kind, i)

C11_Witness ==
    /\ ReportReturned
    /\ input.reportType = "daily"
    /\ input.familyMemberId = "all"
    /\ input.familyMembers = Some(<<Member("1001"), Member("1002")>>)
    /\ call.result.labels = <<(<<2024, 2, 2>>)>>
    /\ SoloReport(Member("1001")).datasets.calories.consumed = <<1500>>
    /\ SoloReport(Member("1002")).datasets.calories.consumed = <<825>>
    /\ call.result.datasets.calories.consumed = <<2325>>

\* calendar date a is after calendar date b
DateAfter(a, b) ==
    \/ a[1] > b[1]
    \/ a[1] = b[1] /\ a[2] > b[2]
    \/ a[1] = b[1] /\ a[2] = b[2] /\ a[3] > b[3]

\* today's date as the program writes dates: new Date().toISOString().split('T')[0]
TodayLabel == toISODate(today)

\* C12: the labels of a weekly report never include a calendar date after
\* today, for every anchor date and every value of today; a week that extends
\* into the future is truncated.
C12_WeeklyNeverAfterToday ==
    (ReportReturned /\ input.reportType = "weekly") =>
        \A i \in 1..Len(call.result.labels) : ~DateAfter(call.result.labels[i], TodayLabel)

C12_Witness ==
    /\ ReportReturned
    /\ input.reportType = "weekly"
    /\ input.startDate = Some(today - 120)
    /\ Len(call.result.labels) = 6
    /\ call.result.labels[1] = <<2024, 1, 28>>
    /\ call.result.labels[6] = TodayLabel

\* the arguments have the types of the interface: the people are a list
PeopleIsList == input.familyMemberId = "all" => input.familyMembers # Nothing

\* the labels are the n consecutive calendar dates that start at the anchor's
SevenFromAnchor ==
    /\ Len(call.result.labels) = 7
    /\ \A i \in 1..Len(call.result.labels) :
          call.result.labels[i]
              = CivilFrom(EpochYear, 1, (Val(input.startDate) \div 24) + i - 1)

\* C13 as stated: for every anchor date before today, a weekly report
\* contains exactly 7 labels, the 7 consecutive dates starting at the anchor.
C13_AsStated ==
    (/\ ReportReturned
     /\ input.reportType = "weekly"
     /\ PeopleIsList
     /\ input.startDate # Nothing
     /\ DateAfter(TodayLabel, toISODate(Val(input.startDate)))) => SevenFromAnchor

\* C13 as amended: for every anchor whose sixth following day is not after
\* the current instant, a weekly report contains exactly 7 labels, the 7
\* consecutive dates starting at the anchor.
C13_SevenLabelsWhenWeekElapsed ==
    (/\ ReportReturned
     /\ input.reportType = "weekly"
     /\ PeopleIsList
     /\ input.startDate # Nothing
     /\ Val(input.startDate) + 6 * 24 <= today) => SevenFromAnchor

C13_Witness ==
    /\ ReportReturned
    /\ input.reportType = "weekly"
    /\ PeopleIsList
    /\ input.startDate = Some(today - 144)
    /\ Len(call.result.labels) = 7
    /\ call.result.labels[1] = <<2024, 1, 27>>
    /\ call.result.labels[7] = <<2024, 2, 2>>

\* the local calendar month of the anchor, as getFullYear() and getMonth() give it
AnchorMonth == LocalDate(Val(input.startDate), timezone)

\* the last day of the anchor's month that is not after today's local date
LastDayUpToToday ==
    LET a == AnchorMonth
        t == LocalDate(today, timezone)
    IN  IF DateAfter(<<a[1], a[2], 1>>, t) THEN 0
        ELSE IF a[1] = t[1] /\ a[2] = t[2] THEN t[3]
        ELSE DaysInMonth(a[1], a[2])

\* C14: the labels of a monthly report are exactly the ISO dates of the
\* anchor's calendar month from day 1 up to the earlier of the month's last day
\* and today, ascending, without gaps or duplicates, and none of another month.
C14_MonthlyLabelsAreTheMonth ==
    (/\ ReportReturned
     /\ input.reportType = "monthly"
     /\ PeopleIsList
     /\ input.startDate # Nothing) =>
        call.result.labels
            = [i \in 1..LastDayUpToToday |-> <<AnchorMonth[1], AnchorMonth[2], i>>]

\* C15: when an internal error occurs while generateNutritionReport runs, also
\* one raised while the meals of a single date are aggregated, the returned
\* Report is empty; a Report with labels that carries default values for the
\* date whose computation failed is never returned.
C15_AnyErrorYieldsEmptyReport ==
    (ReportReturned /\ call.handled # <<>>) => call.result = EmptyReport

----------------------------------------------------------------------------
(* Claims about food lookups *)

\* the first catalog food whose id, as text, is the requested id as text
RECURSIVE FirstWithSameText(_, _, _)
FirstWithSameText(db, i, foodId) ==
    IF i > Len(db) THEN Nothing
    ELSE IF IdToString(Val(db[i].id)) = IdToString(Val(foodId)) THEN Some(db[i])
    ELSE FirstWithSameText(db, i + 1, foodId)

\* the food the lookup of calculateMealNutrition and getMealCostsForDateRange finds
FoundByFind(db, foodId) ==
    LET r == FindFrom(db, 1, Entry(foodId, Nothing))
    IN  IF r.k = "found" THEN Some(r.food) ELSE Nothing

\* C18: every food lookup by id (calculateMealNutrition,
\* getMealCostsForDateRange, DataStore.getFoodById) finds the food whose id
\* equals the requested id when both are compared as strings: "1" finds the
\* food stored with the number 1 and the other way round.
C18_LookupsCompareIdsAsStrings ==
    (/\ call.op = "getFoodById"
     /\ input.kind = "lookup"
     /\ Has(input.foodId)
     /\ \A j \in DOMAIN localStorage.foodDatabase : Has(localStorage.foodDatabase[j].id)) =>
        /\ FoundByFind(localStorage.foodDatabase, input.foodId)
              = FirstWithSameText(localStorage.foodDatabase, 1, input.foodId)
        /\ call.result = FirstWithSameText(localStorage.foodDatabase, 1, input.foodId)

----------------------------------------------------------------------------
(* Frame of the report generator *)

----------------------------------------------------------------------------
(* Claims about the budget tracker *)

\* the summary was drawn
SummaryDrawn == call.op = "updateBudgetSummary" /\ Has(call.result)

\* the selected month is the month of today's local date
SelectedIsCurrentMonth ==
    budgetTracker.currentMonth = MonthString(LocalDate(today, timezone))

\* x = spend * n / d, for a fraction x, a fraction spend and integers n, d > 0
IsScaled(x, spend, n, d) ==
    /\ x.k = "num"
    /\ x.num * (d * spend.den) = (spend.num * n) * x.den

\* C16: for every spend, calculateEstimatedTotal returns the spend unchanged
\* when the selected month is not the current month, and on day d of the
\* current month of n days returns spend + (spend/d)*(n-d), which is
\* spend*n/d.
C16_EstimateExtrapolatesCurrentMonth ==
    (SummaryDrawn /\ Val(call.result).combinedExpenses.k = "num") =>
        IF SelectedIsCurrentMonth
        THEN IsScaled(Val(call.result).estimatedTotal, Val(call.result).combinedExpenses,
                      DaysInMonth(LocalDate(today, timezone)[1], LocalDate(today, timezone)[2]),
                      LocalDate(today, timezone)[3])
        ELSE Val(call.result).estimatedTotal = Val(call.result).combinedExpenses

C16_Witness ==
    /\ SummaryDrawn
    /\ SelectedIsCurrentMonth
    /\ LocalDate(today, timezone) = <<2024, 2, 3>>
    /\ Val(call.result).combinedExpenses = Number(22500)
    /\ Val(call.result).estimatedTotal = Number(217500)

\* the percentage of amount in budget, capped at 100, for amount >= 0 and
\* budget >= 0: 0 for 0/0, 100 for a positive amount and no budget
CappedPercentage(amount, budget) ==
    IF budget.num = 0 THEN (IF amount.num = 0 THEN Number(0) ELSE Number(100))
    ELSE IF amount.num * budget.den <= budget.num * amount.den
         THEN Fraction(Fraction(amount.num * budget.den, amount.den * budget.num).num * 100,
                       Fraction(amount.num * budget.den, amount.den * budget.num).den)
         ELSE Number(100)

NonNegative(x) == x.k = "num" /\ x.num >= 0

\* C17: for every non-negative budget and spend, the spent and the projected
\* percentage of updateBudgetSummary are min(spend/budget*100, 100), are 0
\* when spend and budget are both 0, and lie between 0 and 100.
C17_PercentagesCapped ==
    (SummaryDrawn /\ NonNegative(Val(call.result).monthlyBudget)
                  /\ NonNegative(Val(call.result).combinedExpenses)
                  /\ NonNegative(Val(call.result).estimatedTotal)) =>
        /\ Val(call.result).spentPercentage
              = CappedPercentage(Val(call.result).combinedExpenses, Val(call.result).monthlyBudget)
        /\ Val(call.result).projectedPercentage
              = CappedPercentage(Val(call.result).estimatedTotal, Val(call.result).monthlyBudget)
        /\ \A p \in {Val(call.result).spentPercentage, Val(call.result).projectedPercentage} :
              NonNegative(p) /\ p.num <= 100 * p.den

C17_Witness ==
    /\ SummaryDrawn
    /\ Val(call.result).monthlyBudget = Number(300000)
    /\ Val(call.result).combinedExpenses = Number(147500)
    /\ Val(call.result).spentPercentage = Fraction(295, 6)
    /\ JsGreater(Val(call.result).estimatedTotal, Val(call.result).monthlyBudget)
    /\ Val(call.result).projectedPercentage = Number(100)

\* every stored consumed entry names a food and every catalog food has an id,
\* as addMeal and addFoodToDatabase write them
StoredMealsWellFormed ==
    /\ \A j \in DOMAIN localStorage.foodDatabase : Has(localStorage.foodDatabase[j].id)
    /\ \A key \in DOMAIN localStorage.meals : \A slot \in DOMAIN localStorage.meals[key] :
          Has(localStorage.meals[key][slot]) =>
              \A i \in DOMAIN Val(localStorage.meals[key][slot]) :
                  Has(Val(localStorage.meals[key][slot])[i].foodId)

\* costPerServing * resolved servings of an entry, 0 when its food is not found
EntryCost(e, db) ==
    IF MatchingFoods(e, db) = {} THEN 0
    ELSE FieldValue(db[CHOOSE j \in MatchingFoods(e, db) : \A l \in MatchingFoods(e, db) : j <= l],
                    "cost") * ResolvedServings(e)

\* the sum of EntryCost over the first n entries of a slot
RECURSIVE EntriesCost(_, _, _)
EntriesCost(items, db, n) ==
    IF n = 0 THEN 0 ELSE EntriesCost(items, db, n - 1) + EntryCost(items[n], db)

\* the cost of a stored day: its four slots, an absent slot counting as empty
StoredDayCost(day, db) ==
    LET slot(name) == IF Has(day[name]) THEN EntriesCost(Val(day[name]), db, Len(Val(day[name])))
                      ELSE 0
    IN  slot("breakfast") + slot("lunch") + slot("dinner") + slot("snacks")

\* the sum of StoredDayCost over a set of stored keys
RECURSIVE StoredCost(_)
StoredCost(keys) ==
    IF keys = {} THEN 0
    ELSE LET key == CHOOSE k \in keys : TRUE
         IN  StoredDayCost(localStorage.meals[key], localStorage.foodDatabase)
                + StoredCost(keys \ {key})

\* the consumed keys, of every person, whose date is a day of the selected month
KeysOfSelectedMonth ==
    {key \in DOMAIN localStorage.meals :
        MonthString(key[1]) = budgetTracker.currentMonth
            /\ key[1][3] \in 1..DaysInMonth(key[1][1], key[1][2])}

\* C19: the selected month's meal cost total is the sum of costPerServing *
\* resolved servings over every consumed entry dated from the month's first to
\* its last day, of all persons; entries dated outside the month, planned
\* entries and entries whose food is not found contribute nothing.
C19_MonthlyMealCostIsSumOfEntries ==
    (SummaryDrawn /\ StoredMealsWellFormed /\ budgetTracker.currentMonth # <<>>) =>
        Val(call.result).mealCosts = Number(StoredCost(KeysOfSelectedMonth))

C19_Witness ==
    /\ SummaryDrawn
    /\ StoredMealsWellFormed
    /\ budgetTracker.currentMonth = MonthString(<<2024, 2>>)
    /\ localStorage.meals = BoundaryMeals
    /\ localStorage.mealPlans = BoundaryPlans
    /\ Val(call.result).mealCosts = Number(22500)
    /\ call.handled = <<"Failed to update budget summary">>

----------------------------------------------------------------------------
(* Claims about the stored budget *)

\* typeof x === 'number': a fraction, NaN or an infinity, but not null
IsNumber(x) == x.k \in {"num", "nan", "inf"}

\* C21: after any sequence of budget updates and reloads from storage,
\* DataStore.getBudget() returns a record whose monthly field is a number.
C21_StoredBudgetIsNumber == IsNumber(getBudget(localStorage).monthly)

----------------------------------------------------------------------------
(* Claims about the daily totals *)

\* the entries of the four meal slots, one after the other
AllEntriesOfDay(meals) ==
    SlotEntries(meals.breakfast) \o SlotEntries(meals.lunch)
        \o SlotEntries(meals.dinner) \o SlotEntries(meals.snacks)

\* C27: calculateDailyNutrition(dayMealSet) equals calculateMealNutrition
\* applied to the concatenation of the entries of the four meal slots: every
\* daily total is the one-decimal rounding of the exact sum over all entries
\* of the day.
C27_DailyIsMealOfAllEntries ==
    (call.op = "calculateDailyNutrition" /\ Has(input.meals))
        => call.result =
               calculateMealNutrition(Some(AllEntriesOfDay(Val(input.meals))),
                                      input.foodDatabase).totals

----------------------------------------------------------------------------
(* Claims about the two cost computations *)

\* the costs getMealCostsForDateRange(date, date) returns
CostsOfDate(date) ==
    getMealCostsForDateRange(localStorage, DateOfLabel(date), DateOfLabel(date), Nothing)

\* the keys of those costs that belong to the people of the list
KeysOfPeople(date, people) ==
    {key \in DOMAIN CostsOfDate(date).costs :
        \E i \in 1..Len(people) : people[i].id = key[2]}

\* C28: the consumed cost that generateNutritionReport('daily', 'all', date,
\* people) reports for the date equals the sum of the costs that
\* getMealCostsForDateRange(date, date) returns for those people.  The report
\* value is in tenths, the costs are in units of 10^-4.
C28_ReportCostIsRangeCost ==
    (/\ call.op = "generateNutritionReport"
     /\ input.reportType = "daily" /\ input.familyMemberId = "all"
     /\ Has(input.startDate) /\ Has(input.familyMembers))
        => /\ Len(call.result.labels) = 1
           /\ ~CostsOfDate(call.result.labels[1]).thrown
           /\ call.result.datasets.cost.consumed[1] * 1000 =
                  SumCosts(CostsOfDate(call.result.labels[1]).costs,
                           KeysOfPeople(call.result.labels[1],
                                        Val(input.familyMembers)))

----------------------------------------------------------------------------
(* Claims about the progress bars *)

\* C30: updateBudgetSummary marks the current-spending progress bar
\* 'over-budget' whenever the combined spend exceeds the monthly budget, and
\* marks the projection bar 'over-budget' whenever the estimated month-end
\* total exceeds the monthly budget.
C30_OverBudgetBarsMarked ==
    SummaryDrawn =>
        /\ JsGreater(Val(call.result).combinedExpenses, Val(call.result).monthlyBudget)
              => Val(call.result).spentOverBudget
        /\ JsGreater(Val(call.result).estimatedTotal, Val(call.result).monthlyBudget)
              => Val(call.result).projectedOverBudget


----------------------------------------------------------------------------
(* Claims about the meal tracker *)

\* the stored sets of a kind, the other kind, and the key of the tracker
StoredSets(store, kind) == IF kind = "consumed" THEN store.meals ELSE store.mealPlans

OtherKind(kind) == IF kind = "consumed" THEN "planned" ELSE "consumed"

CurrentKey == MealKey(mealTracker.currentDate, Val(mealTracker.currentFamilyMemberId))

\* two families of stored sets agree under every key but the given one
SameExceptAt(old, new, key) ==
    \A other \in (DOMAIN old \cup DOMAIN new) \ {key} :
        /\ other \in DOMAIN old \cap DOMAIN new
        /\ old[other] = new[other]

\* a step that changes at most the stored set of the kind under the current key
ChangesOnlyCurrent(kind) ==
    /\ SameExceptAt(StoredSets(localStorage, kind), StoredSets(localStorage', kind), CurrentKey)
    /\ StoredSets(localStorage', OtherKind(kind)) = StoredSets(localStorage, OtherKind(kind))

\* C22: addMeal, updateMeal and deleteMeal acting on one kind change only that
\* kind's stored set of the current (date, person): the other kind's sets and
\* the sets of every other (date, person) key stay as they were.
C22_WritesOnlyOwnKindAndKey ==
    [][/\ \A mealType \in AddMealTypeArgs, form \in AddFormArgs,
             status \in {"consumed", "planned"}, ok \in BOOLEAN :
               AddMealOf(mealType, form, status, ok) => ChangesOnlyCurrent(status)
       /\ \A mealType \in MealTypeArgs, index \in 1..MaxMeals, form \in EditFormArgs,
             ok \in BOOLEAN :
               UpdateMealOf(mealType, index, form, ok)
                   => ChangesOnlyCurrent(mealTracker.viewMode)
       /\ \A mealType \in MealTypeArgs, index \in 1..MaxMeals, ok \in BOOLEAN :
               DeleteMealOf(mealType, index, ok)
                   => ChangesOnlyCurrent(mealTracker.viewMode)]_vars

\* C22 witness: the consumed breakfast of member '1001' on 2024-02-02 was
\* edited and saved while the plan of that day and the consumed set of member
\* '1002' on 2024-02-03 are stored as well.
C22_Witness ==
    /\ call = TrackerCall(<<>>)
    /\ MealKey(<<2024, 2, 3>>, "1002") \in DOMAIN localStorage.meals
    /\ EntryCount(localStorage.meals[MealKey(<<2024, 2, 3>>, "1002")]) = 1
    /\ MealKey(<<2024, 2, 2>>, "1001") \in DOMAIN localStorage.mealPlans
    /\ EntryCount(localStorage.mealPlans[MealKey(<<2024, 2, 2>>, "1001")]) = 1
    /\ MealKey(<<2024, 2, 2>>, "1001") \in DOMAIN localStorage.meals
    /\ \E form \in EditFormArgs :
           localStorage.meals[MealKey(<<2024, 2, 2>>, "1001")].breakfast
               = Some(<<MealItem(form.foodId, form.servings, form.notes, "consumed")>>)

\* the stored sets of the current key after a conversion that did all: the
\* plan entry removed and its copy appended to the consumed slot
ConvertedAll(mealType, index) ==
    /\ ~NoItemAt(getMealPlans(localStorage, mealTracker.currentDate,
                              Val(mealTracker.currentFamilyMemberId)), mealType, index)
    /\ getMealPlans(localStorage', mealTracker.currentDate,
                    Val(mealTracker.currentFamilyMemberId))
         = PlanWithout(getMealPlans(localStorage, mealTracker.currentDate,
                                    Val(mealTracker.currentFamilyMemberId)), mealType, index)
    /\ getMeals(localStorage', mealTracker.currentDate,
                Val(mealTracker.currentFamilyMemberId))
         = PushItem(getMeals(localStorage, mealTracker.currentDate,
                             Val(mealTracker.currentFamilyMemberId)), mealType,
                    ConsumedItem(Val(getMealPlans(localStorage, mealTracker.currentDate,
                                         Val(mealTracker.currentFamilyMemberId))[mealType])[index]))

\* C25: convertPlanToMeal is all-or-nothing for every outcome of its two
\* writes: it returns true having removed the plan entry and appended its copy
\* to the consumed slot, or it returns false with both stored sets unchanged.
C25_ConvertIsAllOrNothing ==
    [][\A mealType \in MealTypeArgs, index \in 1..MaxMeals, ok1 \in BOOLEAN, ok2 \in BOOLEAN :
           ConsumePlannedMealOf(mealType, index, ok1, ok2)
               => IF convertPlanToMeal(localStorage, mealTracker.currentDate,
                                       Val(mealTracker.currentFamilyMemberId),
                                       mealType, index, ok1, ok2).result
                  THEN ConvertedAll(mealType, index)
                  ELSE /\ localStorage'.meals = localStorage.meals
                       /\ localStorage'.mealPlans = localStorage.mealPlans]_vars

\* C26: with a member selected, the cached meals and mealPlans are what
\* DataStore.getMeals and DataStore.getMealPlans return for the current date
\* and member, after every operation and every outcome of its write.
C26_CacheIsStore ==
    mealTracker.currentFamilyMemberId # Nothing
        => /\ mealTracker.meals
                = getMeals(localStorage, mealTracker.currentDate,
                           Val(mealTracker.currentFamilyMemberId))
           /\ mealTracker.mealPlans
                = getMealPlans(localStorage, mealTracker.currentDate,
                               Val(mealTracker.currentFamilyMemberId))


----------------------------------------------------------------------------
(* Claims about the error banner *)

\* C24: the banner of the most recently displayed error is hidden only by the
\* close click or by the timer of that error: a critical error stays visible
\* until it is closed, and a timer callback hides a non-critical one only
\* when its full 5 seconds have passed.
C24_HiddenOnlyByOwnTimerOrClose ==
    [][(~errorBanner.hidden /\ errorBanner'.hidden)
          => \/ CloseError
             \/ /\ Val(errorBanner.error).code < CriticalFrom
                /\ Val(errorBanner.error).shownAt + AutoHideDelay <= dateNow
                /\ \E timer \in errorBanner.timers : FireTimerOf(timer)]_vars


----------------------------------------------------------------------------
(* Claims about the family members and the stored records *)

\* no two records of the list have the same id
DistinctIds(records) ==
    \A i \in 1..Len(records), j \in 1..Len(records) :
        records[i].id = records[j].id => i = j

\* C23: after any sequence of addFamilyMember, addExpense and
\* addFoodToDatabase calls no two family members, no two expenses and no two
\* catalog foods share an id, whatever the clock readings at the calls.
C23_IdsAreUnique ==
    /\ DistinctIds(getFamilyMembers(localStorage))
    /\ DistinctIds(localStorage.expenses)
    /\ DistinctIds(getFoodDatabase(localStorage))

\* C29: once the page is set up, the member selected in the 'family-member'
\* dropdown is the member whose meals MealTracker loads and saves.
C29_DropdownShowsTrackedMember ==
    (call # NoCall /\ Len(familyMemberSelect.options) > 0)
        => familyMemberSelect.value = mealTracker.currentFamilyMemberId

====
